---- MODULE Spec2Model ----
(***************************************************************************)
(* Model of the alert engine of horadric-portfolio: the cooldown store     *)
(* (src/src/storage.py), the rule registry and evaluator                   *)
(* (src/src/rules.py), the indicators (src/src/indicators.py) and the      *)
(* regime classifier (src/src/regime.py).                                  *)
(*                                                                         *)
(* Numbers.  Percentages, prices and thresholds are fixed-point with one   *)
(* decimal digit: the integer n stands for n/10 (so -15 is -1.5 percent    *)
(* and 300 is the level 30.0).  Time is counted in whole seconds; a        *)
(* datetime is the number of seconds since an arbitrary origin.            *)
(***************************************************************************)
EXTENDS Integers, Sequences, FiniteSets, TLC

VARIABLES
    clock,       \* datetime.now(), in seconds
    ticks,       \* number of clock advances so far (bounds the run)
    stateFile,   \* the content of state.json
    configFile,  \* the content of config.yml (or its absence)
    ret,         \* the last storage call and what it returned
    fired,       \* history: per rule name, the time of its last record_fire
                 \* whose write is still what the file holds (-1: none)
    snapshot,    \* MarketSnapshot.data: symbol -> SymbolData or absent
    vix_prev,    \* what get_vix_previous_close() returns
    faulty,      \* the rules whose predicate raises in this evaluation pass
    triggered,   \* the list evaluate_rules returned
    assessment,  \* the RegimeAssessment assess_regime returned
    pc,          \* which calls of the pass or run have been made
    credentials, \* TELEGRAM_BOT_TOKEN and TELEGRAM_CHAT_ID are both set
    sends,       \* the send_message_safe calls of this run, in order
    records,     \* the record_fire calls of this run, in order
    alerts_to_send, \* main_alerts: the alerts that passed the cooldown filter
    idx,         \* main_alerts: position of the loop being executed
    to_record,   \* main_alerts: rule names whose record_fire is still to come
    exit_status, \* exit status of the last run (-1: none has ended)
    runs,        \* number of runs started
    run_start,   \* history: datetime.now() when this run started
    file_at_start, \* history: state.json when this run started
    last_delivery  \* history: per rule name, the time of the last successful
                   \* delivery of a message about it (-1: none)

vars == <<clock, ticks, stateFile, configFile, ret, fired,
          snapshot, vix_prev, faulty, triggered, assessment, pc,
          credentials, sends, records, alerts_to_send, idx, to_record,
          exit_status, runs, run_start, file_at_start, last_delivery>>

storeVars == <<clock, ticks, stateFile, ret, fired>>
evalVars == <<snapshot, vix_prev, faulty, triggered, assessment, pc>>
runVars == <<credentials, sends, records, alerts_to_send, idx, to_record,
             exit_status, runs, run_start, file_at_start, last_delivery>>

(***************************************************************************)
(* Bounds of the model.                                                    *)
(***************************************************************************)
MaxTicks == 3
StartClock == 200038
MaxPresent == 2
MaxFaulty == 1

(***************************************************************************)
(* Python values.                                                          *)
(***************************************************************************)
None == [absent |-> TRUE]

EmptyDict == [k \in {} |-> 0]

\* dict.get(key, default)
Get(d, key, default) == IF key \in DOMAIN d THEN d[key] ELSE default

\* d[key] = value on a dict
Put(d, key, value) ==
    [k \in DOMAIN d \cup {key} |-> IF k = key THEN value ELSE d[k]]

Severity == {"critical", "high", "medium", "low"}

(***************************************************************************)
(* Configuration: rules.py load_config / get_config, regime.py             *)
(* load_regime_thresholds.  configFile is [exists |-> FALSE] when there is *)
(* no config.yml (or no yaml module), else [exists |-> TRUE, doc |-> the   *)
(* mapping yaml.safe_load returned].                                       *)
(***************************************************************************)
NoConfigFile == [exists |-> FALSE, doc |-> EmptyDict]

load_config(cf) ==
    IF cf.exists
    THEN cf.doc
    ELSE [rules |-> [credit_stress_intraday |-> -15,
                     credit_stress_5d |-> -30,
                     liquidity_stress_intraday |-> 10,
                     liquidity_stress_5d |-> 20,
                     volatility_level |-> 300,
                     volatility_spike |-> 80,
                     growth_weakness_threshold |-> -15,
                     smallcap_weakness_threshold |-> -20,
                     defensive_hedge_bid |-> 15,
                     spy_drawdown_levels |-> <<-2, -4, -6, -10, -15, -20>>,
                     rate_shock_bps |-> 150],
          cooldowns |-> [critical |-> 45, high |-> 90,
                         medium |-> 240, low |-> 1440]]

get_config(cf) == load_config(cf)

get_threshold(cf, key, default) ==
    Get(Get(get_config(cf), "rules", EmptyDict), key, default)

get_cooldown_minutes(cf, severity) ==
    Get(Get(get_config(cf), "cooldowns", EmptyDict), severity,
        Get([critical |-> 45, high |-> 90, medium |-> 240, low |-> 1440],
            severity, 60))

load_regime_thresholds(cf) ==
    IF cf.exists
    THEN Get(cf.doc, "regime", EmptyDict)
    ELSE [hyg_5d_threshold |-> -30,
          dxy_5d_threshold |-> 20,
          vix_level_threshold |-> 300,
          spy_tlt_combined_threshold |-> -25]

(***************************************************************************)
(* Timestamps.  datetime.isoformat() writes a datetime as text,            *)
(* "D..T HH:MM:SS"; the text is modelled as the tuple of its fields        *)
(* <<days, hours, minutes, seconds>>.  datetime.fromisoformat() parses the *)
(* text back and raises ValueError on fields out of range and TypeError on *)
(* a value that is no text (modelled as a tuple of another length).        *)
(***************************************************************************)
isoformat_dropping_seconds(t) ==
    <<t \div 86400, (t % 86400) \div 3600, (t % 3600) \div 60, 0>>

isoformat(t) ==
    <<t \div 86400, (t % 86400) \div 3600, (t % 3600) \div 60, t % 60>>

fromisoformat(s) ==
    IF Len(s) # 4
    THEN [raised |-> "TypeError", value |-> 0]
    ELSE IF s[1] < 0 \/ s[2] \notin 0..23 \/ s[3] \notin 0..59 \/ s[4] \notin 0..59
    THEN [raised |-> "ValueError", value |-> 0]
    ELSE [raised |-> "no",
          value |-> s[1] * 86400 + s[2] * 3600 + s[3] * 60 + s[4]]

\* timedelta(minutes=m), in seconds
timedelta_minutes(m) == 60 * m

(***************************************************************************)
(* The cooldown store: storage.py.  stateFile is [kind, data]: kind is     *)
(* "absent" (no state.json), "corrupt" (text that is not JSON), "json"     *)
(* with data the decoded object, "unreadable" (open() raises an OSError),  *)
(* "undecodable" (bytes that are no text in the default encoding: read()   *)
(* raises UnicodeDecodeError) or "json_list" (a JSON document that is an   *)
(* array, not an object).                                                  *)
(***************************************************************************)
EmptyState == [last_alerts |-> EmptyDict, version |-> 1]

\* the exception load_state lets escape: it catches json.JSONDecodeError and
\* IOError only, and UnicodeDecodeError is neither
load_state_raised(f) ==
    IF f.kind = "undecodable" THEN "UnicodeDecodeError" ELSE "no"

\* what load_state returns when it returns a dict
load_state(f) ==
    IF f.kind = "json" THEN f.data ELSE EmptyState

\* save_state(state) with the outcome of the write: "ok"; "open_fails" (open()
\* raises IOError, the file is untouched); "write_fails" (open() has truncated
\* the file, the write then raises IOError: what is left is not JSON).
save_state(f, state, outcome) ==
    CASE outcome = "ok" -> [kind |-> "json", data |-> state]
      [] outcome = "open_fails" -> f
      [] outcome = "write_fails" -> [kind |-> "corrupt", data |-> EmptyState]

WriteOutcomes == {"ok", "open_fails", "write_fails"}

\* the exception should_fire lets escape: load_state's, or the AttributeError
\* of state.get on a decoded document that is no dict
should_fire_raised(f, rule_name) ==
    IF load_state_raised(f) # "no"
    THEN load_state_raised(f)
    ELSE IF f.kind = "json_list" THEN "AttributeError" ELSE "no"

should_fire_exclusive(f, cf, now, rule_name, severity) ==
    LET last_alerts == Get(load_state(f), "last_alerts", EmptyDict)
    IN  IF rule_name \notin DOMAIN last_alerts
        THEN TRUE
        ELSE LET last_fire == fromisoformat(last_alerts[rule_name])
             IN  IF last_fire.raised # "no"
                 THEN TRUE
                 ELSE now - last_fire.value >
                          timedelta_minutes(get_cooldown_minutes(cf, severity))

\* should_fire without the cooldown check
should_fire_always(f, cf, now, rule_name, severity) == TRUE

should_fire(f, cf, now, rule_name, severity) ==
    LET last_alerts == Get(load_state(f), "last_alerts", EmptyDict)
    IN  IF rule_name \notin DOMAIN last_alerts
        THEN TRUE
        ELSE LET last_fire == fromisoformat(last_alerts[rule_name])
             IN  IF last_fire.raised # "no"
                 THEN TRUE
                 ELSE now - last_fire.value >=
                          timedelta_minutes(get_cooldown_minutes(cf, severity))

\* the exception record_fire lets escape: load_state's, or the TypeError of
\* state["last_alerts"] = {} on a decoded document that is a list
record_fire_raised(f, rule_name) ==
    IF load_state_raised(f) # "no"
    THEN load_state_raised(f)
    ELSE IF f.kind = "json_list" THEN "TypeError" ELSE "no"

\* the state record_fire hands to save_state
record_fire_state(f, now, rule_name) ==
    LET state == load_state(f)
        withAlerts == IF "last_alerts" \notin DOMAIN state
                      THEN Put(state, "last_alerts", EmptyDict)
                      ELSE state
    IN  Put(withAlerts, "last_alerts",
            Put(withAlerts["last_alerts"], rule_name, isoformat(now)))

record_fire(f, now, rule_name, outcome) ==
    IF record_fire_raised(f, rule_name) # "no"
    THEN f
    ELSE save_state(f, record_fire_state(f, now, rule_name), outcome)

\* get_last_fire_time(rule_name): the parsed stamp, or None (<<>>) when the rule
\* has no entry or its stamp does not parse; it lets escape what should_fire does
get_last_fire_time(f, rule_name) ==
    LET last_alerts == Get(load_state(f), "last_alerts", EmptyDict)
    IN  IF rule_name \notin DOMAIN last_alerts
        THEN <<>>
        ELSE LET last_fire == fromisoformat(last_alerts[rule_name])
             IN  IF last_fire.raised # "no" THEN <<>> ELSE <<last_fire.value>>

(***************************************************************************)
(* The snapshot: data.py.  A SymbolData keeps the fields the rules and the *)
(* regime read.  An Optional[float] is <<>> (None) or <<v>>.               *)
(***************************************************************************)
SYMBOLS == {"SPY", "QQQ", "IWM", "^TNX", "TLT", "HYG", "^VIX", "DX-Y.NYB",
            "GLD", "BTC-USD"}

NoneF == <<>>

SymbolData(price, intraday, change5d, high, sma) ==
    [current_price |-> price, intraday_change_pct |-> intraday,
     change_5d_pct |-> change5d, high_52w |-> high, sma_200 |-> sma]

\* MarketSnapshot.get(symbol)
snapshot_get(snap, symbol) ==
    IF symbol \in DOMAIN snap THEN snap[symbol] ELSE None

(***************************************************************************)
(* Indicators: indicators.py.                                              *)
(***************************************************************************)
get_drawdown_from_high(symbol_data) ==
    IF symbol_data.high_52w = NoneF
    THEN NoneF
    ELSE IF symbol_data.high_52w[1] = 0
    THEN NoneF
    ELSE << ((symbol_data.current_price - symbol_data.high_52w[1]) * 1000)
               \div symbol_data.high_52w[1] >>

is_below_200dma_absent_counts(symbol_data) ==
    IF symbol_data.sma_200 = NoneF
    THEN TRUE
    ELSE symbol_data.current_price < symbol_data.sma_200[1]

is_below_200dma(symbol_data) ==
    IF symbol_data.sma_200 = NoneF
    THEN FALSE
    ELSE symbol_data.current_price < symbol_data.sma_200[1]

(***************************************************************************)
(* Rule predicates: rules.py.  A predicate returns [raised, triggered,     *)
(* ctx]: ctx is what it wrote into the context dict.  Python raises        *)
(* AttributeError when an attribute of None is read and TypeError when     *)
(* None is compared with a number: Outcome is given the objects whose      *)
(* attributes the statements after the early returns read and the          *)
(* Optional numbers they compare.                                          *)
(***************************************************************************)
EmptyCtx == [value |-> NoneF, symbol |-> "", extra |-> EmptyDict]

Ctx(value, symbol, extra) == [value |-> value, symbol |-> symbol, extra |-> extra]

ReturnFalse == [raised |-> "no", triggered |-> FALSE, ctx |-> EmptyCtx]

Outcome(objects, numbers, is_triggered, ctx) ==
    IF None \in objects
    THEN [raised |-> "AttributeError", triggered |-> FALSE, ctx |-> EmptyCtx]
    ELSE IF NoneF \in numbers
    THEN [raised |-> "TypeError", triggered |-> FALSE, ctx |-> EmptyCtx]
    ELSE [raised |-> "no", triggered |-> is_triggered,
          ctx |-> IF is_triggered THEN ctx ELSE EmptyCtx]

check_credit_stress_intraday_strict(snap, cf) ==
    LET hyg == snapshot_get(snap, "HYG")
    IN  IF hyg = None
        THEN ReturnFalse
        ELSE LET threshold == get_threshold(cf, "credit_stress_intraday", -15)
             IN  Outcome({hyg}, {},
                         hyg.intraday_change_pct < threshold,
                         Ctx(<<hyg.intraday_change_pct>>, "HYG", EmptyDict))

check_credit_stress_intraday(snap, cf) ==
    LET hyg == snapshot_get(snap, "HYG")
    IN  IF hyg = None
        THEN ReturnFalse
        ELSE LET threshold == get_threshold(cf, "credit_stress_intraday", -15)
             IN  Outcome({hyg}, {},
                         hyg.intraday_change_pct <= threshold,
                         Ctx(<<hyg.intraday_change_pct>>, "HYG", EmptyDict))

check_credit_stress_5d(snap, cf) ==
    LET hyg == snapshot_get(snap, "HYG")
    IN  IF hyg = None
        THEN ReturnFalse
        ELSE IF hyg.change_5d_pct = NoneF
        THEN ReturnFalse
        ELSE LET threshold == get_threshold(cf, "credit_stress_5d", -30)
             IN  Outcome({hyg}, {hyg.change_5d_pct},
                         hyg.change_5d_pct[1] <= threshold,
                         Ctx(hyg.change_5d_pct, "HYG", EmptyDict))

check_liquidity_stress_intraday(snap, cf) ==
    LET dxy == snapshot_get(snap, "DX-Y.NYB")
    IN  IF dxy = None
        THEN ReturnFalse
        ELSE LET threshold == get_threshold(cf, "liquidity_stress_intraday", 10)
             IN  Outcome({dxy}, {},
                         dxy.intraday_change_pct >= threshold,
                         Ctx(<<dxy.intraday_change_pct>>, "DXY", EmptyDict))

check_liquidity_stress_5d(snap, cf) ==
    LET dxy == snapshot_get(snap, "DX-Y.NYB")
    IN  IF dxy = None
        THEN ReturnFalse
        ELSE IF dxy.change_5d_pct = NoneF
        THEN ReturnFalse
        ELSE LET threshold == get_threshold(cf, "liquidity_stress_5d", 20)
             IN  Outcome({dxy}, {dxy.change_5d_pct},
                         dxy.change_5d_pct[1] >= threshold,
                         Ctx(dxy.change_5d_pct, "DXY", EmptyDict))

check_volatility_elevated(snap, cf) ==
    LET vix == snapshot_get(snap, "^VIX")
    IN  IF vix = None
        THEN ReturnFalse
        ELSE LET threshold == get_threshold(cf, "volatility_level", 300)
             IN  Outcome({vix}, {},
                         vix.current_price >= threshold,
                         Ctx(<<vix.current_price>>, "VIX", EmptyDict))

check_volatility_spike(snap, cf) ==
    LET vix == snapshot_get(snap, "^VIX")
    IN  IF vix = None
        THEN ReturnFalse
        ELSE LET threshold == get_threshold(cf, "volatility_spike", 80)
             IN  Outcome({vix}, {},
                         vix.intraday_change_pct >= threshold,
                         Ctx(<<vix.intraday_change_pct>>, "VIX", EmptyDict))

check_growth_weakness(snap, cf) ==
    LET qqq == snapshot_get(snap, "QQQ")
        spy == snapshot_get(snap, "SPY")
    IN  IF qqq = None \/ spy = None
        THEN ReturnFalse
        ELSE LET threshold == get_threshold(cf, "growth_weakness_threshold", -15)
                 relative_perf == qqq.intraday_change_pct - spy.intraday_change_pct
             IN  Outcome({qqq, spy}, {},
                         relative_perf <= threshold,
                         Ctx(<<relative_perf>>, "",
                             [qqq |-> qqq.intraday_change_pct,
                              spy |-> spy.intraday_change_pct]))

check_smallcap_weakness(snap, cf) ==
    LET iwm == snapshot_get(snap, "IWM")
        spy == snapshot_get(snap, "SPY")
    IN  IF iwm = None \/ spy = None
        THEN ReturnFalse
        ELSE LET threshold == get_threshold(cf, "smallcap_weakness_threshold", -20)
                 relative_perf == iwm.intraday_change_pct - spy.intraday_change_pct
             IN  Outcome({iwm, spy}, {},
                         relative_perf <= threshold,
                         Ctx(<<relative_perf>>, "",
                             [iwm |-> iwm.intraday_change_pct,
                              spy |-> spy.intraday_change_pct]))

check_defensive_hedge_bid(snap, cf) ==
    LET gld == snapshot_get(snap, "GLD")
        tlt == snapshot_get(snap, "TLT")
    IN  IF gld = None \/ tlt = None
        THEN ReturnFalse
        ELSE LET threshold == get_threshold(cf, "defensive_hedge_bid", 15)
             IN  Outcome({gld, tlt}, {},
                         /\ gld.intraday_change_pct >= threshold
                         /\ tlt.intraday_change_pct >= threshold,
                         Ctx(NoneF, "",
                             [gld |-> gld.intraday_change_pct,
                              tlt |-> tlt.intraday_change_pct]))

check_combined_stress(snap, cf) ==
    LET spy == snapshot_get(snap, "SPY")
        tlt == snapshot_get(snap, "TLT")
    IN  IF spy = None \/ tlt = None
        THEN ReturnFalse
        ELSE Outcome({spy, tlt}, {},
                     /\ spy.intraday_change_pct <= -25
                     /\ tlt.intraday_change_pct < 0,
                     Ctx(NoneF, "",
                         [spy |-> spy.intraday_change_pct,
                          tlt |-> tlt.intraday_change_pct]))

check_risk_appetite_positive(snap, cf) ==
    LET spy == snapshot_get(snap, "SPY")
        qqq == snapshot_get(snap, "QQQ")
    IN  IF spy = None \/ qqq = None
        THEN ReturnFalse
        ELSE Outcome({spy, qqq}, {},
                     /\ spy.intraday_change_pct >= 15
                     /\ qqq.intraday_change_pct >= spy.intraday_change_pct,
                     Ctx(NoneF, "",
                         [spy |-> spy.intraday_change_pct,
                          qqq |-> qqq.intraday_change_pct]))

abs(x) == IF x < 0 THEN -x ELSE x

check_btc_major_move(snap, cf) ==
    LET btc == snapshot_get(snap, "BTC-USD")
    IN  IF btc = None
        THEN ReturnFalse
        ELSE Outcome({btc}, {},
                     abs(btc.intraday_change_pct) >= 80,
                     Ctx(<<btc.intraday_change_pct>>, "BTC", EmptyDict))

\* the closure create_drawdown_checker(level) returns; level is in percent
create_drawdown_checker_exclusive(level, snap, cf) ==
    LET spy == snapshot_get(snap, "SPY")
    IN  IF spy = None
        THEN ReturnFalse
        ELSE LET drawdown == get_drawdown_from_high(spy)
             IN  IF drawdown = NoneF
                 THEN ReturnFalse
                 ELSE Outcome({spy}, {drawdown},
                              drawdown[1] < level * 10,
                              Ctx(drawdown, "SPY", EmptyDict))

create_drawdown_checker(level, snap, cf) ==
    LET spy == snapshot_get(snap, "SPY")
    IN  IF spy = None
        THEN ReturnFalse
        ELSE LET drawdown == get_drawdown_from_high(spy)
             IN  IF drawdown = NoneF
                 THEN ReturnFalse
                 ELSE Outcome({spy}, {drawdown},
                              drawdown[1] <= level * 10,
                              Ctx(drawdown, "SPY", EmptyDict))

(***************************************************************************)
(* The rule registry and the evaluator: rules.py.                          *)
(***************************************************************************)
Rule(name, severity, check, level) ==
    [name |-> name, severity |-> severity, check |-> check, level |-> level]

DRAWDOWN_LEVELS == <<-2, -4, -6, -10, -15, -20>>

\* f"SPY_DRAWDOWN_{abs_level}PCT"
drawdown_rule_name(abs_level) ==
    CASE abs_level = 2 -> "SPY_DRAWDOWN_2PCT"
      [] abs_level = 4 -> "SPY_DRAWDOWN_4PCT"
      [] abs_level = 6 -> "SPY_DRAWDOWN_6PCT"
      [] abs_level = 10 -> "SPY_DRAWDOWN_10PCT"
      [] abs_level = 15 -> "SPY_DRAWDOWN_15PCT"
      [] abs_level = 20 -> "SPY_DRAWDOWN_20PCT"

drawdown_rule(level) ==
    Rule(drawdown_rule_name(abs(level)),
         IF abs(level) <= 6 THEN "medium" ELSE "high",
         "create_drawdown_checker", level)

RULES ==
    << Rule("CREDIT_STRESS_INTRADAY", "critical", "check_credit_stress_intraday", 0),
       Rule("COMBINED_STRESS", "critical", "check_combined_stress", 0),
       Rule("CREDIT_STRESS_5D", "high", "check_credit_stress_5d", 0),
       Rule("LIQUIDITY_STRESS_INTRADAY", "high", "check_liquidity_stress_intraday", 0),
       Rule("LIQUIDITY_STRESS_5D", "high", "check_liquidity_stress_5d", 0),
       Rule("VOLATILITY_ELEVATED", "high", "check_volatility_elevated", 0),
       Rule("VOLATILITY_SPIKE", "high", "check_volatility_spike", 0),
       Rule("GROWTH_WEAKNESS", "medium", "check_growth_weakness", 0),
       Rule("SMALLCAP_WEAKNESS", "medium", "check_smallcap_weakness", 0),
       Rule("DEFENSIVE_HEDGE_BID", "medium", "check_defensive_hedge_bid", 0),
       Rule("RISK_APPETITE_POSITIVE", "low", "check_risk_appetite_positive", 0),
       Rule("BTC_MAJOR_MOVE", "low", "check_btc_major_move", 0) >>
    \o [i \in 1..Len(DRAWDOWN_LEVELS) |-> drawdown_rule(DRAWDOWN_LEVELS[i])]

RuleNames == {RULES[i].name : i \in 1..Len(RULES)}

\* rule.check(snapshot, ctx)
rule_check(rule, snap, cf) ==
    CASE rule.check = "check_credit_stress_intraday" -> check_credit_stress_intraday(snap, cf)
      [] rule.check = "check_combined_stress" -> check_combined_stress(snap, cf)
      [] rule.check = "check_credit_stress_5d" -> check_credit_stress_5d(snap, cf)
      [] rule.check = "check_liquidity_stress_intraday" -> check_liquidity_stress_intraday(snap, cf)
      [] rule.check = "check_liquidity_stress_5d" -> check_liquidity_stress_5d(snap, cf)
      [] rule.check = "check_volatility_elevated" -> check_volatility_elevated(snap, cf)
      [] rule.check = "check_volatility_spike" -> check_volatility_spike(snap, cf)
      [] rule.check = "check_growth_weakness" -> check_growth_weakness(snap, cf)
      [] rule.check = "check_smallcap_weakness" -> check_smallcap_weakness(snap, cf)
      [] rule.check = "check_defensive_hedge_bid" -> check_defensive_hedge_bid(snap, cf)
      [] rule.check = "check_risk_appetite_positive" -> check_risk_appetite_positive(snap, cf)
      [] rule.check = "check_btc_major_move" -> check_btc_major_move(snap, cf)
      [] rule.check = "create_drawdown_checker" -> create_drawdown_checker(rule.level, snap, cf)

\* the call of rule.check inside the try block; the predicates of the rules in
\* raising fail with an unexpected fault
try_check(rule, snap, cf, raising) ==
    IF rule.name \in raising
    THEN [raised |-> "Exception", triggered |-> FALSE, ctx |-> EmptyCtx]
    ELSE rule_check(rule, snap, cf)

TriggeredRule(rule, ctx) ==
    [rule |-> rule.name, severity |-> rule.severity,
     value |-> ctx.value, symbol |-> ctx.symbol, extra_context |-> ctx.extra]

RECURSIVE evaluate_rules_from(_, _, _, _, _)
evaluate_rules_from(i, acc, snap, cf, raising) ==
    IF i > Len(RULES)
    THEN acc
    ELSE LET r == try_check(RULES[i], snap, cf, raising)
         IN  evaluate_rules_from(
                 i + 1,
                 IF r.raised = "no" /\ r.triggered
                 THEN Append(acc, TriggeredRule(RULES[i], r.ctx))
                 ELSE acc,
                 snap, cf, raising)

RECURSIVE evaluate_rules_aborting_from(_, _, _, _, _)
evaluate_rules_aborting_from(i, acc, snap, cf, raising) ==
    IF i > Len(RULES)
    THEN acc
    ELSE LET r == try_check(RULES[i], snap, cf, raising)
         IN  IF r.raised # "no"
             THEN acc
             ELSE evaluate_rules_aborting_from(
                      i + 1,
                      IF r.triggered
                      THEN Append(acc, TriggeredRule(RULES[i], r.ctx))
                      ELSE acc,
                      snap, cf, raising)

evaluate_rules_aborting(snap, cf, raising) ==
    evaluate_rules_aborting_from(1, <<>>, snap, cf, raising)

\* the evaluator collecting the triggered rules last-registered first
evaluate_rules_reversed(snap, cf, raising) ==
    LET found == evaluate_rules_from(1, <<>>, snap, cf, raising)
    IN  [i \in 1..Len(found) |-> found[Len(found) + 1 - i]]

evaluate_rules(snap, cf, raising) ==
    evaluate_rules_from(1, <<>>, snap, cf, raising)

(***************************************************************************)
(* The regime classifier: regime.py.  A trigger text is the tuple of the   *)
(* pieces of its f-string; fmt1 is the "{:.1f}" rendering of a number.     *)
(* Each check of assess_regime is a function of the triggers list it       *)
(* appends to.                                                             *)
(***************************************************************************)
fmt1(n) == [negative |-> n < 0, units |-> abs(n) \div 10, tenths |-> abs(n) % 10]

regime_check_hyg_on_intraday(snap, thresholds, prev, triggers) ==
    LET hyg == snapshot_get(snap, "HYG")
    IN  IF hyg # None
        THEN LET hyg_threshold == Get(thresholds, "hyg_5d_threshold", -30)
             IN  IF hyg.intraday_change_pct <= -15
                 THEN Append(triggers, <<"Credit stress: HYG 5D return ",
                                         fmt1(hyg.intraday_change_pct), "%">>)
                 ELSE triggers
        ELSE triggers

regime_check_hyg(snap, thresholds, prev, triggers) ==
    LET hyg == snapshot_get(snap, "HYG")
    IN  IF hyg # None /\ hyg.change_5d_pct # NoneF
        THEN LET hyg_threshold == Get(thresholds, "hyg_5d_threshold", -30)
             IN  IF hyg.change_5d_pct[1] <= hyg_threshold
                 THEN Append(triggers, <<"Credit stress: HYG 5D return ",
                                         fmt1(hyg.change_5d_pct[1]), "%">>)
                 ELSE triggers
        ELSE triggers

\* the liquidity check with a strict comparison
regime_check_dxy_strict(snap, thresholds, prev, triggers) ==
    LET dxy == snapshot_get(snap, "DX-Y.NYB")
    IN  IF dxy # None /\ dxy.change_5d_pct # NoneF
        THEN LET dxy_threshold == Get(thresholds, "dxy_5d_threshold", 20)
             IN  IF dxy.change_5d_pct[1] > dxy_threshold
                 THEN Append(triggers, <<"Liquidity tightening: DXY 5D return +",
                                         fmt1(dxy.change_5d_pct[1]), "%">>)
                 ELSE triggers
        ELSE triggers

regime_check_dxy(snap, thresholds, prev, triggers) ==
    LET dxy == snapshot_get(snap, "DX-Y.NYB")
    IN  IF dxy # None /\ dxy.change_5d_pct # NoneF
        THEN LET dxy_threshold == Get(thresholds, "dxy_5d_threshold", 20)
             IN  IF dxy.change_5d_pct[1] >= dxy_threshold
                 THEN Append(triggers, <<"Liquidity tightening: DXY 5D return +",
                                         fmt1(dxy.change_5d_pct[1]), "%">>)
                 ELSE triggers
        ELSE triggers

regime_check_vix_not_falling(snap, thresholds, prev, triggers) ==
    LET vix == snapshot_get(snap, "^VIX")
    IN  IF vix # None
        THEN LET vix_threshold == Get(thresholds, "vix_level_threshold", 300)
             IN  IF vix.current_price >= vix_threshold
                 THEN IF prev # NoneF /\ vix.current_price >= prev[1]
                      THEN Append(triggers, <<"Elevated and rising volatility: VIX ",
                                              fmt1(vix.current_price), " (prev: ",
                                              fmt1(prev[1]), ")">>)
                      ELSE IF prev = NoneF
                      THEN Append(triggers, <<"Elevated volatility: VIX ",
                                              fmt1(vix.current_price)>>)
                      ELSE triggers
                 ELSE triggers
        ELSE triggers

regime_check_vix(snap, thresholds, prev, triggers) ==
    LET vix == snapshot_get(snap, "^VIX")
    IN  IF vix # None
        THEN LET vix_threshold == Get(thresholds, "vix_level_threshold", 300)
             IN  IF vix.current_price >= vix_threshold
                 THEN IF prev # NoneF /\ vix.current_price > prev[1]
                      THEN Append(triggers, <<"Elevated and rising volatility: VIX ",
                                              fmt1(vix.current_price), " (prev: ",
                                              fmt1(prev[1]), ")">>)
                      ELSE IF prev = NoneF
                      THEN Append(triggers, <<"Elevated volatility: VIX ",
                                              fmt1(vix.current_price)>>)
                      ELSE triggers
                 ELSE triggers
        ELSE triggers

regime_check_combined_flat_bonds(snap, thresholds, prev, triggers) ==
    LET spy == snapshot_get(snap, "SPY")
        tlt == snapshot_get(snap, "TLT")
    IN  IF spy # None /\ tlt # None
        THEN LET spy_threshold == Get(thresholds, "spy_tlt_combined_threshold", -25)
             IN  IF spy.intraday_change_pct <= spy_threshold
                    /\ tlt.intraday_change_pct <= 0
                 THEN Append(triggers, <<"Combined stress: SPY ",
                                         fmt1(spy.intraday_change_pct), "% and TLT ",
                                         fmt1(tlt.intraday_change_pct), "%">>)
                 ELSE triggers
        ELSE triggers

regime_check_combined(snap, thresholds, prev, triggers) ==
    LET spy == snapshot_get(snap, "SPY")
        tlt == snapshot_get(snap, "TLT")
    IN  IF spy # None /\ tlt # None
        THEN LET spy_threshold == Get(thresholds, "spy_tlt_combined_threshold", -25)
             IN  IF spy.intraday_change_pct <= spy_threshold
                    /\ tlt.intraday_change_pct < 0
                 THEN Append(triggers, <<"Combined stress: SPY ",
                                         fmt1(spy.intraday_change_pct), "% and TLT ",
                                         fmt1(tlt.intraday_change_pct), "%">>)
                 ELSE triggers
        ELSE triggers

regime_check_structural_if_first(snap, thresholds, prev, triggers) ==
    LET spy == snapshot_get(snap, "SPY")
    IN  IF triggers = <<>> /\ spy # None /\ is_below_200dma(spy)
        THEN LET tnx == snapshot_get(snap, "^TNX")
             IN  IF tnx # None /\ tnx.intraday_change_pct > 0
                 THEN Append(triggers,
                             <<"Structural weakness: SPY below 200dma with rates rising">>)
                 ELSE triggers
        ELSE triggers

regime_check_structural(snap, thresholds, prev, triggers) ==
    LET spy == snapshot_get(snap, "SPY")
    IN  IF spy # None /\ is_below_200dma(spy)
        THEN LET tnx == snapshot_get(snap, "^TNX")
             IN  IF tnx # None /\ tnx.intraday_change_pct > 0
                 THEN Append(triggers,
                             <<"Structural weakness: SPY below 200dma with rates rising">>)
                 ELSE triggers
        ELSE triggers

\* the five checks, by their position in assess_regime
regime_check(k, snap, thresholds, prev, triggers) ==
    CASE k = 1 -> regime_check_hyg(snap, thresholds, prev, triggers)
      [] k = 2 -> regime_check_dxy(snap, thresholds, prev, triggers)
      [] k = 3 -> regime_check_vix(snap, thresholds, prev, triggers)
      [] k = 4 -> regime_check_combined(snap, thresholds, prev, triggers)
      [] k = 5 -> regime_check_structural(snap, thresholds, prev, triggers)

RECURSIVE run_regime_checks(_, _, _, _, _, _)
run_regime_checks(order, j, snap, thresholds, prev, triggers) ==
    IF j > Len(order)
    THEN triggers
    ELSE run_regime_checks(order, j + 1, snap, thresholds, prev,
                           regime_check(order[j], snap, thresholds, prev, triggers))

\* the end of assess_regime: the regime and the summary from the triggers
regime_of_triggers(triggers) ==
    IF triggers # <<>>
    THEN [regime |-> "DEFENSIVE", triggers |-> triggers,
          summary |-> <<"DEFENSIVE regime - ", Len(triggers),
                        " warning signal(s) active">>]
    ELSE [regime |-> "NORMAL", triggers |-> triggers,
          summary |-> <<"NORMAL regime - no significant stress signals detected">>]

\* assess_regime with its checks run in the given order
assess_regime_in_order(order, snap, cf, prev) ==
    regime_of_triggers(
        run_regime_checks(order, 1, snap, load_regime_thresholds(cf), prev, <<>>))

assess_regime(snap, cf, prev) ==
    assess_regime_in_order(<<1, 2, 3, 4, 5>>, snap, cf, prev)

(***************************************************************************)
(* The notifier: telegram.py.  A text is the sequence of its pieces; each  *)
(* Markdown markup character (the asterisk "*", the underscore "_" and the *)
(* backquote, written "BACKQUOTE") is a piece of its own.  What the        *)
(* network does with a request is its answer: "ok" (HTTP 200 and           *)
(* {"ok": true}), "api_error" (HTTP 200 and {"ok": false}), "http_error"   *)
(* (raise_for_status raises), "timeout" or "connection_error".             *)
(***************************************************************************)
MarkupCharacters == {"*", "_", "BACKQUOTE"}

Answers == {"ok", "api_error", "http_error", "timeout", "connection_error"}

\* text.replace("*", "").replace("_", "").replace(BACKQUOTE, "")
strip_markdown(text) ==
    LET RECURSIVE without(_, _)
        without(t, ch) ==
            IF t = <<>> THEN <<>>
            ELSE IF Head(t) = ch THEN without(Tail(t), ch)
            ELSE <<Head(t)>> \o without(Tail(t), ch)
    IN  without(without(without(text, "*"), "_"), "BACKQUOTE")

\* one call of send_message: the request it posted, if any, and what it returns
send_message(text, parse_mode, creds, answer) ==
    IF ~creds
    THEN [text |-> text, parse_mode |-> parse_mode, posted |-> FALSE,
          answer |-> "none", result |-> FALSE]
    ELSE [text |-> text, parse_mode |-> parse_mode, posted |-> TRUE,
          answer |-> answer, result |-> (answer = "ok")]

\* a wrapper that goes on retrying the plain text
send_message_safe_retrying(text, creds, answers) ==
    LET first == send_message(text, "Markdown", creds, answers[1])
        plain_text == strip_markdown(text)
        second == send_message(plain_text, "", creds, answers[2])
        third == send_message(plain_text, "", creds, answers[2])
    IN  IF first.result
        THEN [calls |-> <<first>>, result |-> TRUE]
        ELSE IF second.result
        THEN [calls |-> <<first, second>>, result |-> TRUE]
        ELSE [calls |-> <<first, second, third>>, result |-> third.result]

\* send_message_safe(text): answers[i] is what the network answers to the
\* i-th request of the call, should it be made
send_message_safe(text, creds, answers) ==
    LET first == send_message(text, "Markdown", creds, answers[1])
    IN  IF first.result
        THEN [calls |-> <<first>>, result |-> TRUE]
        ELSE LET plain_text == strip_markdown(text)
                 second == send_message(plain_text, "", creds, answers[2])
             IN  [calls |-> <<first, second>>, result |-> second.result]

(***************************************************************************)
(* The messages: render.py.  Text that varies and holds no markup          *)
(* character (a formatted template, a time, a price table) is one piece    *)
(* written in braces; a rule name is cut at its underscores.               *)
(***************************************************************************)
get_severity_emoji(severity) ==
    CASE severity = "critical" -> "{rotating light}"
      [] severity = "high" -> "{warning}"
      [] severity = "medium" -> "{bar chart}"
      [] severity = "low" -> "{information}"
      [] OTHER -> "{pushpin}"

\* rule.severity.value.upper()
upper(severity) ==
    CASE severity = "critical" -> "CRITICAL"
      [] severity = "high" -> "HIGH"
      [] severity = "medium" -> "MEDIUM"
      [] severity = "low" -> "LOW"

render_alert(tr) ==
    << get_severity_emoji(tr.severity), " ", "*", upper(tr.severity), "*",
       " - ", "{category}", "{newline}", "{newline}", "{message_body}",
       "{newline}", "{newline}", "_", "{HH:MM:SS ET}", "_" >>

RECURSIVE alert_lines(_)
alert_lines(trs) ==
    IF trs = <<>> THEN <<>>
    ELSE << "{newline}", get_severity_emoji(Head(trs).severity), " ", "*",
            upper(Head(trs).severity), "*", ": ", "{message_body}" >>
         \o alert_lines(Tail(trs))

render_multiple_alerts(trs) ==
    IF Len(trs) = 1
    THEN render_alert(trs[1])
    ELSE << "*", "{bell}", "{n} Alerts Triggered", "*", "{newline}",
            "_", "{HH:MM:SS ET}", "_", "{newline}" >> \o alert_lines(trs)

\* a rule name as text
name_pieces(name) ==
    CASE name = "CREDIT_STRESS_INTRADAY" -> <<"CREDIT", "_", "STRESS", "_", "INTRADAY">>
      [] name = "COMBINED_STRESS" -> <<"COMBINED", "_", "STRESS">>
      [] name = "CREDIT_STRESS_5D" -> <<"CREDIT", "_", "STRESS", "_", "5D">>
      [] name = "LIQUIDITY_STRESS_INTRADAY" -> <<"LIQUIDITY", "_", "STRESS", "_", "INTRADAY">>
      [] name = "LIQUIDITY_STRESS_5D" -> <<"LIQUIDITY", "_", "STRESS", "_", "5D">>
      [] name = "VOLATILITY_ELEVATED" -> <<"VOLATILITY", "_", "ELEVATED">>
      [] name = "VOLATILITY_SPIKE" -> <<"VOLATILITY", "_", "SPIKE">>
      [] name = "GROWTH_WEAKNESS" -> <<"GROWTH", "_", "WEAKNESS">>
      [] name = "SMALLCAP_WEAKNESS" -> <<"SMALLCAP", "_", "WEAKNESS">>
      [] name = "DEFENSIVE_HEDGE_BID" -> <<"DEFENSIVE", "_", "HEDGE", "_", "BID">>
      [] name = "RISK_APPETITE_POSITIVE" -> <<"RISK", "_", "APPETITE", "_", "POSITIVE">>
      [] name = "BTC_MAJOR_MOVE" -> <<"BTC", "_", "MAJOR", "_", "MOVE">>
      [] name = "SPY_DRAWDOWN_2PCT" -> <<"SPY", "_", "DRAWDOWN", "_", "2PCT">>
      [] name = "SPY_DRAWDOWN_4PCT" -> <<"SPY", "_", "DRAWDOWN", "_", "4PCT">>
      [] name = "SPY_DRAWDOWN_6PCT" -> <<"SPY", "_", "DRAWDOWN", "_", "6PCT">>
      [] name = "SPY_DRAWDOWN_10PCT" -> <<"SPY", "_", "DRAWDOWN", "_", "10PCT">>
      [] name = "SPY_DRAWDOWN_15PCT" -> <<"SPY", "_", "DRAWDOWN", "_", "15PCT">>
      [] name = "SPY_DRAWDOWN_20PCT" -> <<"SPY", "_", "DRAWDOWN", "_", "20PCT">>

\* the by_severity grouping of render_daily_report with the lowest group
\* left out
report_signals_without_low(triggered_rules) ==
    LET group(sev) == SelectSeq(triggered_rules, LAMBDA tr : tr.severity = sev)
        names(trs) == [i \in 1..Len(trs) |-> trs[i].rule]
    IN  names(group("critical") \o group("high") \o group("medium"))

\* the rule names the "Signals Triggered" section lists, in its order: grouped
\* by severity, critical first
report_signals(triggered_rules) ==
    LET group(sev) == SelectSeq(triggered_rules, LAMBDA tr : tr.severity = sev)
        names(trs) == [i \in 1..Len(trs) |-> trs[i].rule]
    IN  names(group("critical") \o group("high") \o group("medium")
              \o group("low"))

RECURSIVE signal_lines(_)
signal_lines(names) ==
    IF names = <<>> THEN <<>>
    ELSE <<"{newline}", "{emoji}", " ">> \o name_pieces(Head(names))
         \o signal_lines(Tail(names))

render_daily_report(snap, regime, triggered_rules) ==
    LET spy == snapshot_get(snap, "SPY")
    IN  << "*", "{bar chart}", "Daily Market Report", "*", "{newline}",
           "_", "{YYYY-MM-DD HH:MM ET}", "_", "{newline}",
           "*", "TL;DR", "*", "{newline}", "{tldr}", "{newline}",
           "*", "Regime: ", regime.regime, "*", "{newline}" >>
        \o [i \in 1..(IF Len(regime.triggers) < 3 THEN Len(regime.triggers) ELSE 3)
               |-> "{trigger}"]
        \o << "_", "{guidance}", "_", "{newline}",
              "*", "Market Snapshot", "*", "{newline}",
              "BACKQUOTE", "BACKQUOTE", "BACKQUOTE", "{metrics}",
              "BACKQUOTE", "BACKQUOTE", "BACKQUOTE", "{newline}" >>
        \o (IF spy # None /\ get_drawdown_from_high(spy) # NoneF
            THEN <<"*", "SPY Drawdown:", "*", "{drawdown}", "{newline}">>
            ELSE <<>>)
        \o (IF triggered_rules # <<>>
            THEN <<"*", "Signals Triggered", "*">>
                 \o signal_lines(report_signals(triggered_rules))
            ELSE <<"_", "No alert signals triggered", "_">>)

(***************************************************************************)
(* The cooldown store as a state machine: the calls of storage.py a run    *)
(* makes, and the passing of time between them.                            *)
(***************************************************************************)
StoreNames == {"CREDIT_STRESS_INTRADAY", "BTC_MAJOR_MOVE"}

\* a configuration that overrides two of the four cooldown tiers
CustomConfigFile ==
    [exists |-> TRUE,
     doc |-> [rules |-> [credit_stress_intraday |-> -20],
              cooldowns |-> [critical |-> 1, low |-> 0],
              regime |-> [vix_level_threshold |-> 299]]]

\* state.json as earlier runs may have left it
InitialStateFiles ==
    { [kind |-> "absent", data |-> EmptyState],
      [kind |-> "json", data |-> [version |-> 1]],
      [kind |-> "json",
       data |-> [last_alerts |->
                    [CREDIT_STRESS_INTRADAY |-> isoformat(StartClock - 2700),
                     BTC_MAJOR_MOVE |-> <<2, 25, 0, 0>>],
                 version |-> 1]] }

NoCall ==
    [op |-> "none", name |-> "", severity |-> "", result |-> FALSE,
     raised |-> "no", at |-> 0]

\* the moments worth visiting: one second on, and one second before the end of
\* a cooldown window
ClockSteps(cf) ==
    {1} \cup {d \in {timedelta_minutes(get_cooldown_minutes(cf, sev)) - 1 :
                        sev \in Severity} : d > 0}

Tick(d) ==
    /\ ticks < MaxTicks
    /\ clock' = clock + d
    /\ ticks' = ticks + 1
    /\ UNCHANGED <<stateFile, configFile, ret, fired>>
    /\ UNCHANGED evalVars
    /\ UNCHANGED runVars

ShouldFire(rule_name, severity) ==
    /\ ret' = [op |-> "should_fire", name |-> rule_name, severity |-> severity,
               result |-> IF should_fire_raised(stateFile, rule_name) = "no"
                          THEN should_fire(stateFile, configFile, clock,
                                           rule_name, severity)
                          ELSE FALSE,
               raised |-> should_fire_raised(stateFile, rule_name),
               at |-> clock]
    /\ UNCHANGED <<clock, ticks, stateFile, configFile, fired>>
    /\ UNCHANGED evalVars
    /\ UNCHANGED runVars

RecordFire(rule_name, outcome) ==
    /\ stateFile' = record_fire(stateFile, clock, rule_name, outcome)
    /\ ret' = [op |-> "record_fire", name |-> rule_name, severity |-> "",
               result |-> (outcome = "ok"
                           /\ record_fire_raised(stateFile, rule_name) = "no"),
               raised |-> record_fire_raised(stateFile, rule_name),
               at |-> clock]
    /\ fired' = CASE record_fire_raised(stateFile, rule_name) # "no" -> fired
                  [] outcome = "ok" -> [fired EXCEPT ![rule_name] = clock]
                  [] outcome = "open_fails" -> fired
                  [] outcome = "write_fails" -> [n \in StoreNames |-> -1]
    /\ UNCHANGED <<clock, ticks, configFile>>
    /\ UNCHANGED evalVars
    /\ UNCHANGED runVars

\* a call of get_last_fire_time(rule_name)
GetLastFireTime(rule_name) ==
    /\ ret' = [op |-> "get_last_fire_time", name |-> rule_name, severity |-> "",
               result |-> (should_fire_raised(stateFile, rule_name) = "no"
                           /\ get_last_fire_time(stateFile, rule_name) # <<>>),
               raised |-> should_fire_raised(stateFile, rule_name),
               at |-> clock]
    /\ UNCHANGED <<clock, ticks, stateFile, configFile, fired>>
    /\ UNCHANGED evalVars
    /\ UNCHANGED runVars

EmptySnapshot == [sym \in {} |-> None]

NoAssessment == [regime |-> "none", triggers |-> <<>>, summary |-> <<>>]

EvalIdle ==
    /\ snapshot = EmptySnapshot
    /\ vix_prev = NoneF
    /\ faulty = {}
    /\ triggered = <<>>
    /\ assessment = NoAssessment
    /\ pc = "idle"

\* no run has started
NoRun ==
    /\ sends = <<>>
    /\ records = <<>>
    /\ alerts_to_send = <<>>
    /\ idx = 0
    /\ to_record = <<>>
    /\ exit_status = -1
    /\ runs = 0
    /\ run_start = StartClock
    /\ file_at_start = stateFile
    /\ last_delivery = [n \in RuleNames |-> -1]

\* no run has started; the notifier's credentials are set
RunIdle ==
    /\ credentials = TRUE
    /\ NoRun

InitStore ==
    /\ clock = StartClock
    /\ ticks = 0
    /\ stateFile \in InitialStateFiles
    /\ configFile \in {NoConfigFile, CustomConfigFile}
    /\ ret = NoCall
    /\ fired = [n \in StoreNames |-> -1]
    /\ EvalIdle
    /\ RunIdle

NextStore ==
    \/ \E d \in ClockSteps(configFile) : Tick(d)
    \/ \E n \in StoreNames, sev \in Severity : ShouldFire(n, sev)
    \/ \E n \in StoreNames, o \in WriteOutcomes : RecordFire(n, o)

SpecStore == InitStore /\ [][NextStore]_vars

(***************************************************************************)
(* The same calls on a state.json that something other than save_state has *)
(* damaged.                                                                *)
(***************************************************************************)
DamagedStateFiles ==
    { [kind |-> "corrupt", data |-> EmptyState],
      [kind |-> "unreadable", data |-> EmptyState],
      [kind |-> "undecodable", data |-> EmptyState],
      [kind |-> "json_list", data |-> EmptyState],
      [kind |-> "json",
       data |-> [last_alerts |->
                    [CREDIT_STRESS_INTRADAY |-> <<2, 7, 60, 0>>,
                     BTC_MAJOR_MOVE |-> <<>>],
                 version |-> 1]] }

InitDamaged ==
    /\ clock = StartClock
    /\ ticks = 0
    /\ stateFile \in DamagedStateFiles
    /\ configFile \in {NoConfigFile, CustomConfigFile}
    /\ ret = NoCall
    /\ fired = [n \in StoreNames |-> -1]
    /\ EvalIdle
    /\ RunIdle

NextDamaged ==
    \/ \E d \in ClockSteps(configFile) : Tick(d)
    \/ \E n \in StoreNames, sev \in Severity : ShouldFire(n, sev)
    \/ \E n \in StoreNames, o \in WriteOutcomes : RecordFire(n, o)

SpecDamaged == InitDamaged /\ [][NextDamaged]_vars

(***************************************************************************)
(* The three calls that read the store, and record_fire, on a state.json   *)
(* that loads: absent, without entries, or with the entries of both rules. *)
(***************************************************************************)
NextReadable ==
    \/ \E n \in StoreNames, sev \in Severity : ShouldFire(n, sev)
    \/ \E n \in StoreNames : GetLastFireTime(n)
    \/ \E n \in StoreNames, o \in WriteOutcomes : RecordFire(n, o)

SpecReadable == InitStore /\ [][NextReadable]_vars

(***************************************************************************)
(* One evaluation pass as a state machine: a fetched snapshot, then        *)
(* assess_regime and evaluate_rules on it (the order of main_daily.py).    *)
(* The snapshots are drawn from two families: every snapshot over the      *)
(* value grids below with at most MaxPresent instruments present, and the  *)
(* snapshots in which the six instruments the regime reads each take one   *)
(* of a few values.                                                        *)
(***************************************************************************)
SpyShapes ==
    {<<price, <<1000>>, NoneF>> :
        price \in {1000, 981, 980, 961, 960, 941, 940, 901, 900, 851, 850, 801, 800}}
    \cup {<<900, NoneF, NoneF>>, <<900, <<0>>, NoneF>>, <<899, NoneF, <<900>> >>,
          <<899, <<1000>>, <<900>> >>, <<900, <<1000>>, <<900>> >>}

Grid(sym) ==
    CASE sym = "HYG" ->
            {SymbolData(800, i, c, NoneF, NoneF) :
                i \in {-20, -15, -14}, c \in {NoneF, <<-30>>, <<-29>>}}
      [] sym = "DX-Y.NYB" ->
            {SymbolData(1000, i, c, NoneF, NoneF) :
                i \in {9, 10}, c \in {NoneF, <<19>>, <<20>>}}
      [] sym = "^VIX" ->
            {SymbolData(price, i, NoneF, NoneF, NoneF) :
                price \in {299, 300}, i \in {79, 80}}
      [] sym = "SPY" ->
            {SymbolData(sh[1], -24, NoneF, sh[2], sh[3]) : sh \in SpyShapes}
            \cup {SymbolData(900, i, NoneF, <<1000>>, NoneF) : i \in {-25, 15}}
      [] sym = "TLT" ->
            {SymbolData(900, i, NoneF, NoneF, NoneF) : i \in {-1, 0, 15}}
      [] sym = "QQQ" ->
            {SymbolData(4000, i, NoneF, NoneF, NoneF) : i \in {-40, -39, 14, 15}}
      [] sym = "IWM" ->
            {SymbolData(2000, i, NoneF, NoneF, NoneF) : i \in {-45, -44}}
      [] sym = "GLD" ->
            {SymbolData(1800, i, NoneF, NoneF, NoneF) : i \in {14, 15}}
      [] sym = "BTC-USD" ->
            {SymbolData(600000, i, NoneF, NoneF, NoneF) : i \in {-80, -79, 79, 80}}
      [] sym = "^TNX" ->
            {SymbolData(40, i, NoneF, NoneF, NoneF) : i \in {0, 1}}

\* the snapshots in which exactly the instruments of present are there
RECURSIVE SnapshotsOver(_)
SnapshotsOver(present) ==
    IF present = {}
    THEN {EmptySnapshot}
    ELSE LET sym == CHOOSE x \in present : TRUE
         IN  {(sym :> d) @@ rest :
                 d \in Grid(sym), rest \in SnapshotsOver(present \ {sym})}

SparseSnapshots ==
    UNION {SnapshotsOver(present) :
              present \in {P \in SUBSET SYMBOLS : Cardinality(P) <= MaxPresent}}

\* fetch_market_snapshot keeps the instruments whose fetch returned data
KeepFetched(fetched) ==
    [sym \in {x \in DOMAIN fetched : fetched[x] # None} |-> fetched[sym]]

RegimeSnapshots ==
    {KeepFetched(("HYG" :> hyg) @@ ("DX-Y.NYB" :> dxy) @@ ("^VIX" :> vix)
                 @@ ("SPY" :> spy) @@ ("TLT" :> tlt) @@ ("^TNX" :> tnx)) :
        hyg \in {None, SymbolData(800, -20, <<-30>>, NoneF, NoneF),
                 SymbolData(800, -14, <<-29>>, NoneF, NoneF),
                 SymbolData(800, -20, NoneF, NoneF, NoneF)},
        dxy \in {None, SymbolData(1000, 9, <<20>>, NoneF, NoneF),
                 SymbolData(1000, 9, <<19>>, NoneF, NoneF),
                 SymbolData(1000, 10, NoneF, NoneF, NoneF)},
        vix \in {None, SymbolData(299, 79, NoneF, NoneF, NoneF),
                 SymbolData(300, 79, NoneF, NoneF, NoneF)},
        spy \in {None, SymbolData(899, -25, NoneF, <<1000>>, <<900>>),
                 SymbolData(900, -25, NoneF, <<1000>>, <<900>>),
                 SymbolData(899, -24, NoneF, <<1000>>, <<900>>),
                 SymbolData(899, -24, NoneF, <<1000>>, NoneF)},
        tlt \in {None, SymbolData(900, -1, NoneF, NoneF, NoneF),
                 SymbolData(900, 0, NoneF, NoneF, NoneF)},
        tnx \in {None, SymbolData(40, 1, NoneF, NoneF, NoneF),
                 SymbolData(40, 0, NoneF, NoneF, NoneF)}}

\* what get_vix_previous_close() may return (it is called only with ^VIX in
\* the snapshot)
PreviousCloses == {NoneF, <<299>>, <<300>>}

StoreIdle ==
    /\ clock = StartClock
    /\ ticks = 0
    /\ stateFile = [kind |-> "absent", data |-> EmptyState]
    /\ ret = NoCall
    /\ fired = [n \in StoreNames |-> -1]

InitEval ==
    /\ StoreIdle
    /\ RunIdle
    /\ configFile \in {NoConfigFile, CustomConfigFile}
    /\ snapshot \in SparseSnapshots \cup RegimeSnapshots
    /\ vix_prev \in IF "^VIX" \in DOMAIN snapshot THEN PreviousCloses ELSE {NoneF}
    /\ faulty = {}
    /\ triggered = <<>>
    /\ assessment = NoAssessment
    /\ pc = "fetched"

AssessRegime ==
    /\ pc = "fetched"
    /\ assessment' = assess_regime(snapshot, configFile, vix_prev)
    /\ pc' = "assessed"
    /\ UNCHANGED <<snapshot, vix_prev, faulty, triggered, configFile>>
    /\ UNCHANGED storeVars
    /\ UNCHANGED runVars

EvaluateRules(from, raising) ==
    /\ pc = from
    /\ faulty' = raising
    /\ triggered' = evaluate_rules(snapshot, configFile, raising)
    /\ pc' = "evaluated"
    /\ UNCHANGED <<snapshot, vix_prev, assessment, configFile>>
    /\ UNCHANGED storeVars
    /\ UNCHANGED runVars

NextEval ==
    \/ AssessRegime
    \/ EvaluateRules("assessed", {})

Spec == InitEval /\ [][NextEval]_vars

\* assess_regime alone, on the snapshots of the six instruments it reads
InitRegime ==
    /\ StoreIdle
    /\ RunIdle
    /\ configFile \in {NoConfigFile, CustomConfigFile}
    /\ snapshot \in RegimeSnapshots
    /\ vix_prev \in IF "^VIX" \in DOMAIN snapshot THEN PreviousCloses ELSE {NoneF}
    /\ faulty = {}
    /\ triggered = <<>>
    /\ assessment = NoAssessment
    /\ pc = "fetched"

NextRegime == AssessRegime

SpecRegime == InitRegime /\ [][NextRegime]_vars

(***************************************************************************)
(* An evaluation pass in which some predicates fail: evaluate_rules alone  *)
(* (the call main_alerts.py makes) on snapshots in which each of five      *)
(* instruments is absent or under stress.                                  *)
(***************************************************************************)
StressSnapshots ==
    {KeepFetched(("HYG" :> hyg) @@ ("SPY" :> spy) @@ ("TLT" :> tlt)
                 @@ ("^VIX" :> vix) @@ ("BTC-USD" :> btc)) :
        hyg \in {None, SymbolData(800, -20, <<-30>>, NoneF, NoneF)},
        spy \in {None, SymbolData(900, -25, NoneF, <<1000>>, <<950>>)},
        tlt \in {None, SymbolData(900, -1, NoneF, NoneF, NoneF)},
        vix \in {None, SymbolData(300, 80, NoneF, NoneF, NoneF)},
        btc \in {None, SymbolData(600000, -80, NoneF, NoneF, NoneF)}}

FaultSets == {F \in SUBSET RuleNames : Cardinality(F) <= MaxFaulty}

InitFault ==
    /\ StoreIdle
    /\ RunIdle
    /\ configFile \in {NoConfigFile, CustomConfigFile}
    /\ snapshot \in StressSnapshots
    /\ vix_prev = NoneF
    /\ faulty = {}
    /\ triggered = <<>>
    /\ assessment = NoAssessment
    /\ pc = "fetched"

NextFault == \E F \in FaultSets : EvaluateRules("fetched", F)

SpecFault == InitFault /\ [][NextFault]_vars

(***************************************************************************)
(* Rule evaluation under configurations whose rules section sets the       *)
(* thresholds, on snapshots in which every instrument has all its data.    *)
(***************************************************************************)
\* a config.yml that sets every key of the rules section load_config knows
OverridingConfigFile ==
    [exists |-> TRUE,
     doc |-> [rules |-> [credit_stress_intraday |-> -10,
                         credit_stress_5d |-> -20,
                         liquidity_stress_intraday |-> 5,
                         liquidity_stress_5d |-> 10,
                         volatility_level |-> 250,
                         volatility_spike |-> 50,
                         spy_drawdown_levels |-> <<-3, -5>>,
                         growth_weakness_threshold |-> -10,
                         smallcap_weakness_threshold |-> -10,
                         defensive_hedge_bid |-> 10,
                         rate_shock_bps |-> 100],
              cooldowns |-> [critical |-> 45, high |-> 90,
                             medium |-> 240, low |-> 1440]]]

FullSnapshots ==
    {("HYG" :> hyg) @@ ("SPY" :> spy) @@ ("TLT" :> tlt) @@ ("^VIX" :> vix)
     @@ ("BTC-USD" :> btc) @@ ("QQQ" :> qqq)
     @@ ("IWM" :> SymbolData(2000, -30, <<-10>>, <<2200>>, <<2100>>))
     @@ ("GLD" :> SymbolData(1800, 12, <<5>>, <<1900>>, <<1700>>))
     @@ ("DX-Y.NYB" :> SymbolData(1000, 7, <<15>>, <<1100>>, <<990>>))
     @@ ("^TNX" :> SymbolData(40, 1, <<2>>, <<50>>, <<38>>)) :
        hyg \in {SymbolData(800, -12, <<-25>>, <<900>>, <<850>>),
                 SymbolData(800, -20, <<-30>>, <<900>>, <<850>>)},
        spy \in {SymbolData(970, -20, <<-10>>, <<1000>>, <<950>>),
                 SymbolData(900, -25, <<-40>>, <<1000>>, <<950>>),
                 SymbolData(990, 15, <<20>>, <<1000>>, <<950>>)},
        tlt \in {SymbolData(900, -1, <<-5>>, <<1000>>, <<950>>),
                 SymbolData(900, 12, <<5>>, <<1000>>, <<950>>)},
        vix \in {SymbolData(260, 60, <<100>>, <<400>>, <<200>>),
                 SymbolData(300, 80, <<100>>, <<400>>, <<200>>)},
        btc \in {SymbolData(600000, -60, <<10>>, <<700000>>, <<500000>>),
                 SymbolData(600000, -80, <<10>>, <<700000>>, <<500000>>)},
        qqq \in {SymbolData(4000, -40, <<-50>>, <<4400>>, <<4100>>),
                 SymbolData(4000, 20, <<30>>, <<4400>>, <<4100>>)}}

InitConfig ==
    /\ StoreIdle
    /\ RunIdle
    /\ configFile \in {NoConfigFile, CustomConfigFile, OverridingConfigFile}
    /\ snapshot \in FullSnapshots
    /\ vix_prev = NoneF
    /\ faulty = {}
    /\ triggered = <<>>
    /\ assessment = NoAssessment
    /\ pc = "fetched"

NextConfig == EvaluateRules("fetched", {})

SpecConfig == InitConfig /\ [][NextConfig]_vars

(***************************************************************************)
(* One call of send_message_safe, on every short text and with every pair  *)
(* of answers of the network.                                              *)
(***************************************************************************)
MaxText == 2

TextPieces == {"a", "*", "_", "BACKQUOTE"}

Texts == UNION {[1..n -> TextPieces] : n \in 0..MaxText}

\* the record kept of a call send_message_safe(text) made at time now about
\* the rules in about
SendRecord(about, now, text, sent) ==
    [about |-> about, at |-> now, text |-> text,
     calls |-> sent.calls, result |-> sent.result]

SendMessageSafe(text, answers) ==
    /\ sends = <<>>
    /\ sends' = <<SendRecord(<<>>, clock, text,
                             send_message_safe(text, credentials, answers))>>
    /\ UNCHANGED <<credentials, records, alerts_to_send, idx, to_record,
                   exit_status, runs, run_start, file_at_start, last_delivery>>
    /\ UNCHANGED <<configFile>>
    /\ UNCHANGED storeVars
    /\ UNCHANGED evalVars

InitSend ==
    /\ StoreIdle
    /\ configFile = NoConfigFile
    /\ EvalIdle
    /\ credentials \in BOOLEAN
    /\ NoRun

NextSend ==
    \E text \in Texts, answers \in Answers \X Answers : SendMessageSafe(text, answers)

SpecSend == InitSend /\ [][NextSend]_vars

(***************************************************************************)
(* The two entry points as state machines: main_alerts.py and              *)
(* main_daily.py.  A run is a sequence of steps (fetch, evaluate, one      *)
(* cooldown check, one delivery, one record_fire, ...) between which time  *)
(* passes; runs do not overlap.  An exception nothing catches ends the run *)
(* with exit status 1.  SpecAlerts is one run of main_alerts.py.           *)
(***************************************************************************)
MaxRuns == 2

\* what fetch_market_snapshot may return to a run
RunSnapshots ==
    { EmptySnapshot,
      KeepFetched("HYG" :> SymbolData(800, 0, NoneF, NoneF, NoneF)),
      KeepFetched("HYG" :> SymbolData(800, -20, NoneF, NoneF, NoneF)),
      KeepFetched("SPY" :> SymbolData(980, 0, NoneF, <<1000>>, NoneF)),
      KeepFetched(("HYG" :> SymbolData(800, -20, NoneF, NoneF, NoneF))
                  @@ ("BTC-USD" :> SymbolData(600000, 80, NoneF, NoneF, NoneF))
                  @@ ("SPY" :> SymbolData(980, 0, NoneF, <<1000>>, NoneF))),
      KeepFetched(("BTC-USD" :> SymbolData(600000, 80, NoneF, NoneF, NoneF))
                  @@ ("SPY" :> SymbolData(940, 0, NoneF, <<1000>>, NoneF))) }

\* state.json as a run may find it
RunStateFiles ==
    { [kind |-> "absent", data |-> EmptyState],
      [kind |-> "undecodable", data |-> EmptyState],
      [kind |-> "json",
       data |-> [last_alerts |->
                    [SPY_DRAWDOWN_2PCT |-> isoformat(StartClock - 60),
                     BTC_MAJOR_MOVE |-> <<2, 25, 0, 0>>],
                 version |-> 1]] }

\* what the network answers to the two requests a delivery may make
DeliveryAnswers ==
    {<<"ok", "ok">>, <<"api_error", "ok">>, <<"timeout", "connection_error">>}

\* one second, and one second less than the cooldown of a critical alert
RunClockSteps(cf) ==
    {1, timedelta_minutes(get_cooldown_minutes(cf, "critical")) - 1}

\* severity_order.get(tr.rule.severity.value, 99)
severity_order(severity) ==
    CASE severity = "critical" -> 0
      [] severity = "high" -> 1
      [] severity = "medium" -> 2
      [] severity = "low" -> 3
      [] OTHER -> 99

\* a sort that is left out
sort_by_severity_skipped(alerts) == alerts

\* alerts_to_send.sort(key=...): list.sort is stable
sort_by_severity(alerts) ==
    LET RECURSIVE insert(_, _)
        insert(sorted, tr) ==
            IF sorted = <<>> THEN <<tr>>
            ELSE IF severity_order(Head(sorted).severity) <= severity_order(tr.severity)
            THEN <<Head(sorted)>> \o insert(Tail(sorted), tr)
            ELSE <<tr>> \o sorted
        RECURSIVE from(_, _)
        from(k, sorted) ==
            IF k > Len(alerts) THEN sorted
            ELSE from(k + 1, insert(sorted, alerts[k]))
    IN  from(1, <<>>)

\* a threshold one lower
send_individually_below_three(alerts) == Len(alerts) < 3

\* if len(alerts_to_send) <= 3: one message per alert, else one for all
send_individually(alerts) == Len(alerts) <= 3

rule_names(trs) == [i \in 1..Len(trs) |-> trs[i].rule]

\* the start of a run of either entry point, when fewer than most runs have
\* been started: fetch_market_snapshot() has returned fetched; sys.exit(1) if
\* it holds no data
StartRun(fetched, entry, most) ==
    /\ pc \in {"idle", "done"}
    /\ runs < most
    /\ runs' = runs + 1
    /\ run_start' = clock
    /\ file_at_start' = stateFile
    /\ snapshot' = fetched
    /\ vix_prev' = NoneF
    /\ faulty' = {}
    /\ triggered' = <<>>
    /\ assessment' = NoAssessment
    /\ sends' = <<>>
    /\ records' = <<>>
    /\ alerts_to_send' = <<>>
    /\ idx' = 0
    /\ to_record' = <<>>
    /\ IF fetched = EmptySnapshot
       THEN exit_status' = 1 /\ pc' = "done"
       ELSE exit_status' = -1 /\ pc' = entry
    /\ UNCHANGED <<clock, ticks, stateFile, configFile, ret, fired,
                   credentials, last_delivery>>

\* time passes between two runs and while a run fetches and evaluates
Pass(d) ==
    /\ pc \in {"idle", "done", "a_fetched", "d_fetched"}
    /\ Tick(d)

\* main_alerts: triggered = evaluate_rules(snapshot); return if none
AlertsEvaluate ==
    /\ pc = "a_fetched"
    /\ triggered' = evaluate_rules(snapshot, configFile, {})
    /\ IF triggered' = <<>>
       THEN pc' = "done" /\ exit_status' = 0 /\ idx' = 0
       ELSE pc' = "a_filter" /\ exit_status' = exit_status /\ idx' = 1
    /\ UNCHANGED <<snapshot, vix_prev, faulty, assessment, configFile>>
    /\ UNCHANGED storeVars
    /\ UNCHANGED <<credentials, sends, records, alerts_to_send, to_record,
                   runs, run_start, file_at_start, last_delivery>>

\* main_alerts: one pass of the cooldown filter loop; after the last one,
\* return if no alert is left, else sort
AlertsFilter ==
    /\ pc = "a_filter"
    /\ LET tr == triggered[idx]
           raised == should_fire_raised(stateFile, tr.rule)
           passes == raised = "no" /\ should_fire(stateFile, configFile, clock,
                                                  tr.rule, tr.severity)
           kept == IF passes THEN Append(alerts_to_send, tr) ELSE alerts_to_send
       IN  /\ ret' = [op |-> "should_fire", name |-> tr.rule,
                      severity |-> tr.severity, result |-> passes,
                      raised |-> raised, at |-> clock]
           /\ CASE raised # "no" ->
                       /\ pc' = "done" /\ exit_status' = 1
                       /\ UNCHANGED <<alerts_to_send, idx>>
                 [] raised = "no" /\ idx < Len(triggered) ->
                       /\ alerts_to_send' = kept /\ idx' = idx + 1
                       /\ UNCHANGED <<pc, exit_status>>
                 [] raised = "no" /\ idx = Len(triggered) /\ kept = <<>> ->
                       /\ pc' = "done" /\ exit_status' = 0
                       /\ alerts_to_send' = kept /\ idx' = 0
                 [] raised = "no" /\ idx = Len(triggered) /\ kept # <<>> ->
                       /\ alerts_to_send' = sort_by_severity(kept)
                       /\ pc' = "a_send" /\ idx' = 1
                       /\ UNCHANGED exit_status
    /\ UNCHANGED <<clock, ticks, stateFile, configFile, fired>>
    /\ UNCHANGED <<snapshot, vix_prev, faulty, triggered, assessment>>
    /\ UNCHANGED <<credentials, sends, records, to_record, runs, run_start,
                   file_at_start, last_delivery>>

\* main_alerts: one delivery: the alert at idx when at most 3 alerts are to be
\* sent, else all of them in one message
AlertsSend(answers) ==
    /\ pc = "a_send"
    /\ LET combined == ~send_individually(alerts_to_send)
           batch == IF combined THEN alerts_to_send ELSE <<alerts_to_send[idx]>>
           message == IF combined
                      THEN render_multiple_alerts(alerts_to_send)
                      ELSE render_alert(alerts_to_send[idx])
           sent == send_message_safe(message, credentials, answers)
           last == combined \/ idx = Len(alerts_to_send)
       IN  /\ sends' = Append(sends, SendRecord(rule_names(batch), clock,
                                                message, sent))
           /\ IF sent.result
              THEN /\ to_record' = rule_names(batch)
                   /\ pc' = "a_record"
                   /\ last_delivery' =
                          [n \in RuleNames |->
                              IF \E k \in 1..Len(batch) : batch[k].rule = n
                              THEN clock ELSE last_delivery[n]]
                   /\ UNCHANGED <<idx, exit_status>>
              ELSE /\ UNCHANGED <<to_record, last_delivery>>
                   /\ IF last
                      THEN pc' = "done" /\ exit_status' = 0 /\ UNCHANGED idx
                      ELSE idx' = idx + 1 /\ UNCHANGED <<pc, exit_status>>
    /\ UNCHANGED <<configFile>>
    /\ UNCHANGED storeVars
    /\ UNCHANGED <<snapshot, vix_prev, faulty, triggered, assessment>>
    /\ UNCHANGED <<credentials, records, alerts_to_send, runs, run_start,
                   file_at_start>>

\* main_alerts: one record_fire after a successful delivery, its write ending
\* with outcome
AlertsRecord(outcome) ==
    /\ pc = "a_record"
    /\ LET name == Head(to_record)
           raised == record_fire_raised(stateFile, name)
           last == ~send_individually(alerts_to_send) \/ idx = Len(alerts_to_send)
       IN  /\ stateFile' = record_fire(stateFile, clock, name, outcome)
           /\ records' = Append(records,
                                [name |-> name, at |-> clock,
                                 outcome |-> IF raised = "no" THEN outcome
                                                              ELSE raised])
           /\ ret' = [op |-> "record_fire", name |-> name, severity |-> "",
                      result |-> (outcome = "ok" /\ raised = "no"),
                      raised |-> raised, at |-> clock]
           /\ fired' = CASE raised # "no" -> fired
                         [] outcome = "ok" -> [fired EXCEPT ![name] = clock]
                         [] outcome = "open_fails" -> fired
                         [] outcome = "write_fails" -> [n \in DOMAIN fired |-> -1]
           /\ IF raised # "no"
              THEN pc' = "done" /\ exit_status' = 1 /\ UNCHANGED <<to_record, idx>>
              ELSE /\ to_record' = Tail(to_record)
                   /\ IF Tail(to_record) # <<>>
                      THEN UNCHANGED <<pc, idx, exit_status>>
                      ELSE IF last
                      THEN pc' = "done" /\ exit_status' = 0 /\ UNCHANGED idx
                      ELSE pc' = "a_send" /\ idx' = idx + 1
                           /\ UNCHANGED exit_status
    /\ UNCHANGED <<clock, ticks, configFile>>
    /\ UNCHANGED <<snapshot, vix_prev, faulty, triggered, assessment>>
    /\ UNCHANGED <<credentials, sends, alerts_to_send, runs, run_start,
                   file_at_start, last_delivery>>

InitAlerts ==
    /\ clock = StartClock
    /\ ticks = 0
    /\ stateFile \in RunStateFiles
    /\ configFile \in {NoConfigFile, CustomConfigFile}
    /\ ret = NoCall
    /\ fired = [n \in RuleNames |-> -1]
    /\ EvalIdle
    /\ RunIdle

NextAlerts ==
    \/ \E d \in RunClockSteps(configFile) : Pass(d)
    \/ \E fetched \in RunSnapshots : StartRun(fetched, "a_fetched", 1)
    \/ AlertsEvaluate
    \/ AlertsFilter
    \/ \E answers \in DeliveryAnswers : AlertsSend(answers)
    \/ \E outcome \in WriteOutcomes : AlertsRecord(outcome)

SpecAlerts == InitAlerts /\ [][NextAlerts]_vars

(***************************************************************************)
(* One run of main_daily.py: fetch, classify the regime, evaluate the      *)
(* rules, render the report and deliver it.                                *)
(***************************************************************************)
\* main_daily: regime = assess_regime(snapshot); prev is what
\* get_vix_previous_close returns
DailyAssess(prev) ==
    /\ pc = "d_fetched"
    /\ prev # NoneF => "^VIX" \in DOMAIN snapshot
    /\ vix_prev' = prev
    /\ assessment' = assess_regime(snapshot, configFile, prev)
    /\ pc' = "d_assessed"
    /\ UNCHANGED <<snapshot, faulty, triggered, configFile>>
    /\ UNCHANGED storeVars
    /\ UNCHANGED runVars

\* main_daily: triggered = evaluate_rules(snapshot)
DailyEvaluate ==
    /\ pc = "d_assessed"
    /\ triggered' = evaluate_rules(snapshot, configFile, {})
    /\ pc' = "d_evaluated"
    /\ UNCHANGED <<snapshot, vix_prev, faulty, assessment, configFile>>
    /\ UNCHANGED storeVars
    /\ UNCHANGED runVars

\* main_daily: report = render_daily_report(...); send_message_safe(report);
\* sys.exit(1) when it failed
DailyDeliver(answers) ==
    /\ pc = "d_evaluated"
    /\ LET report == render_daily_report(snapshot, assessment, triggered)
           sent == send_message_safe(report, credentials, answers)
       IN  /\ sends' = Append(sends, SendRecord(report_signals(triggered), clock,
                                                report, sent))
           /\ exit_status' = IF sent.result THEN 0 ELSE 1
    /\ pc' = "done"
    /\ UNCHANGED <<snapshot, vix_prev, faulty, triggered, assessment, configFile>>
    /\ UNCHANGED storeVars
    /\ UNCHANGED <<credentials, records, alerts_to_send, idx, to_record, runs,
                   run_start, file_at_start, last_delivery>>

InitDaily ==
    /\ clock = StartClock
    /\ ticks = 0
    /\ stateFile \in RunStateFiles
    /\ configFile \in {NoConfigFile, CustomConfigFile}
    /\ ret = NoCall
    /\ fired = [n \in RuleNames |-> -1]
    /\ EvalIdle
    /\ credentials \in BOOLEAN
    /\ NoRun

NextDaily ==
    \/ \E d \in RunClockSteps(configFile) : Pass(d)
    \/ \E fetched \in RunSnapshots : StartRun(fetched, "d_fetched", 1)
    \/ \E prev \in PreviousCloses : DailyAssess(prev)
    \/ DailyEvaluate
    \/ \E answers \in DeliveryAnswers : DailyDeliver(answers)

SpecDaily == InitDaily /\ [][NextDaily]_vars

(***************************************************************************)
(* Successive runs of main_alerts.py, one after the other, on a state.json *)
(* that only these runs write and whose writes succeed.                    *)
(***************************************************************************)
CooldownSnapshots ==
    { KeepFetched("HYG" :> SymbolData(800, 0, NoneF, NoneF, NoneF)),
      KeepFetched("HYG" :> SymbolData(800, -20, NoneF, NoneF, NoneF)),
      KeepFetched(("HYG" :> SymbolData(800, -20, NoneF, NoneF, NoneF))
                  @@ ("BTC-USD" :> SymbolData(600000, 80, NoneF, NoneF, NoneF))) }

InitCooldown ==
    /\ clock = StartClock
    /\ ticks = 0
    /\ stateFile = [kind |-> "absent", data |-> EmptyState]
    /\ configFile \in {NoConfigFile, CustomConfigFile}
    /\ ret = NoCall
    /\ fired = [n \in RuleNames |-> -1]
    /\ EvalIdle
    /\ RunIdle

NextCooldown ==
    \/ \E d \in RunClockSteps(configFile) : Pass(d)
    \/ \E fetched \in CooldownSnapshots : StartRun(fetched, "a_fetched", MaxRuns)
    \/ AlertsEvaluate
    \/ AlertsFilter
    \/ \E answers \in DeliveryAnswers : AlertsSend(answers)
    \/ AlertsRecord("ok")

SpecCooldown == InitCooldown /\ [][NextCooldown]_vars

(***************************************************************************)
(* Claims about the cooldown store (checked under SpecStore).              *)
(***************************************************************************)
\* the cooldown window of a severity in minutes, as the specification states it:
\* the configured value of the tier, else critical=45, high=90, medium=240,
\* low=1440
DocumentedWindow(cf, severity) ==
    IF cf.exists /\ "cooldowns" \in DOMAIN cf.doc
                 /\ severity \in DOMAIN cf.doc["cooldowns"]
    THEN cf.doc["cooldowns"][severity]
    ELSE CASE severity = "critical" -> 45
           [] severity = "high" -> 90
           [] severity = "medium" -> 240
           [] severity = "low" -> 1440

\* the entries the persisted store holds
StoredAlerts ==
    IF stateFile.kind = "json" /\ "last_alerts" \in DOMAIN stateFile.data
    THEN stateFile.data["last_alerts"]
    ELSE EmptyDict

WellFormedStamp(e) ==
    Len(e) = 4 /\ e[1] >= 0 /\ e[2] \in 0..23 /\ e[3] \in 0..59 /\ e[4] \in 0..59

StampSeconds(e) == e[1] * 86400 + e[2] * 3600 + e[3] * 60 + e[4]

\* C1: after record_fire(name) completed with a successful write, a
\* should_fire(name, severity) for a severity with a positive window, called
\* right away or one second later (reading the state back from the file),
\* returns false; called after more than the window has elapsed, it returns
\* true.
C1_RecordThenShouldFire ==
    (ret.op = "should_fire" /\ fired[ret.name] >= 0
        /\ DocumentedWindow(configFile, ret.severity) > 0)
    => LET elapsed == ret.at - fired[ret.name]
           window == 60 * DocumentedWindow(configFile, ret.severity)
       IN  /\ elapsed <= 1 => ret.result = FALSE
           /\ elapsed > window => ret.result = TRUE

\* C1 witness: a rule was recorded, more than its window went by, and
\* should_fire answered true.
C1_Witness ==
    /\ ret.op = "should_fire"
    /\ fired[ret.name] >= 0
    /\ DocumentedWindow(configFile, ret.severity) > 0
    /\ ret.at - fired[ret.name] > 60 * DocumentedWindow(configFile, ret.severity)
    /\ ret.result = TRUE

\* C2: on a store whose timestamps are well-formed, should_fire returns true
\* exactly when the store has no entry for the name or now - last fire >= the
\* window of the severity (inclusive); without configuration the windows are
\* 45, 90, 240 and 1440 minutes.
C2_ShouldFireIffElapsed ==
    (ret.op = "should_fire"
        /\ \A n \in DOMAIN StoredAlerts : WellFormedStamp(StoredAlerts[n]))
    => ret.result =
         (\/ ret.name \notin DOMAIN StoredAlerts
          \/ ret.at - StampSeconds(StoredAlerts[ret.name])
                >= 60 * DocumentedWindow(configFile, ret.severity))

\* C2 witness: without configuration, a call at exactly the end of the window
\* answered true.
C2_Witness ==
    /\ ret.op = "should_fire"
    /\ configFile = NoConfigFile
    /\ \A n \in DOMAIN StoredAlerts : WellFormedStamp(StoredAlerts[n])
    /\ ret.name \in DOMAIN StoredAlerts
    /\ ret.at - StampSeconds(StoredAlerts[ret.name])
          = 60 * DocumentedWindow(configFile, ret.severity)
    /\ ret.result = TRUE

(***************************************************************************)
(* Claims about the evaluator and the regime classifier.                   *)
(***************************************************************************)
TriggeredNames == {triggered[i].rule : i \in 1..Len(triggered)}

TriggerLabels == {assessment.triggers[i][1] : i \in 1..Len(assessment.triggers)}

\* a threshold as the specification states it: the configured value of the key
\* in the section, else the documented default
DocumentedThreshold(cf, section, key, default) ==
    IF cf.exists /\ section \in DOMAIN cf.doc /\ key \in DOMAIN cf.doc[section]
    THEN cf.doc[section][key]
    ELSE default

\* the list evaluate_rules produces when the predicates of the rules in
\* silenced return false
ListWithPredicatesFalse(silenced) ==
    LET Fires(rule) == /\ rule.name \notin silenced
                       /\ rule_check(rule, snapshot, configFile).triggered
        kept == SelectSeq(RULES, Fires)
    IN  [i \in 1..Len(kept) |->
            TriggeredRule(kept[i], rule_check(kept[i], snapshot, configFile).ctx)]

\* C3: when the predicate of a rule raises, the rule counts as not triggered
\* and every other rule is still evaluated: the list returned is the list
\* obtained with that predicate returning false, and evaluate_rules returns.
C3_FaultIsolated ==
    pc = "evaluated" => triggered = ListWithPredicatesFalse(faulty)

\* C3 witness: the first rule of the registry raised on a snapshot that would
\* have triggered it, and a later rule is in the list returned.
C3_Witness ==
    /\ pc = "evaluated"
    /\ faulty = {"CREDIT_STRESS_INTRADAY"}
    /\ rule_check(RULES[1], snapshot, configFile).triggered
    /\ "BTC_MAJOR_MOVE" \in TriggeredNames
    /\ "CREDIT_STRESS_INTRADAY" \notin TriggeredNames

\* what a rule needs from the snapshot: instruments, and optional fields
Needs(name) ==
    CASE name = "CREDIT_STRESS_INTRADAY" -> {<<"HYG", "">>}
      [] name = "COMBINED_STRESS" -> {<<"SPY", "">>, <<"TLT", "">>}
      [] name = "CREDIT_STRESS_5D" -> {<<"HYG", "change_5d_pct">>}
      [] name = "LIQUIDITY_STRESS_INTRADAY" -> {<<"DX-Y.NYB", "">>}
      [] name = "LIQUIDITY_STRESS_5D" -> {<<"DX-Y.NYB", "change_5d_pct">>}
      [] name \in {"VOLATILITY_ELEVATED", "VOLATILITY_SPIKE"} -> {<<"^VIX", "">>}
      [] name = "GROWTH_WEAKNESS" -> {<<"QQQ", "">>, <<"SPY", "">>}
      [] name = "SMALLCAP_WEAKNESS" -> {<<"IWM", "">>, <<"SPY", "">>}
      [] name = "DEFENSIVE_HEDGE_BID" -> {<<"GLD", "">>, <<"TLT", "">>}
      [] name = "RISK_APPETITE_POSITIVE" -> {<<"SPY", "">>, <<"QQQ", "">>}
      [] name = "BTC_MAJOR_MOVE" -> {<<"BTC-USD", "">>}
      [] OTHER -> {<<"SPY", "high_52w">>}

\* what a regime trigger needs, by the text it starts with
TriggerNeeds(label) ==
    CASE label = "Credit stress: HYG 5D return " -> {<<"HYG", "change_5d_pct">>}
      [] label = "Liquidity tightening: DXY 5D return +" -> {<<"DX-Y.NYB", "change_5d_pct">>}
      [] label \in {"Elevated and rising volatility: VIX ", "Elevated volatility: VIX "}
            -> {<<"^VIX", "">>}
      [] label = "Combined stress: SPY " -> {<<"SPY", "">>, <<"TLT", "">>}
      [] OTHER -> {<<"SPY", "sma_200">>, <<"^TNX", "">>}

Available(need) ==
    /\ need[1] \in DOMAIN snapshot
    /\ need[2] # "" => snapshot[need[1]][need[2]] # NoneF

\* C4: whatever instruments and optional fields are absent, no rule predicate
\* raises and the regime is assessed; a rule or a regime trigger that needs an
\* absent instrument or field does not fire.
C4_AbsenceNeverRaisesNorFires ==
    /\ \A i \in 1..Len(RULES) :
          rule_check(RULES[i], snapshot, configFile).raised = "no"
    /\ pc = "evaluated" =>
          /\ assessment.regime \in {"NORMAL", "DEFENSIVE"}
          /\ \A name \in TriggeredNames : \A need \in Needs(name) : Available(need)
          /\ \A label \in TriggerLabels : \A need \in TriggerNeeds(label) : Available(need)

\* C4 witness: SPY is there without 52-week high and without 200-session
\* average, rates are rising, and neither a drawdown rule nor the structural
\* trigger fired.
C4_Witness ==
    /\ pc = "evaluated"
    /\ DOMAIN snapshot = {"SPY", "^TNX"}
    /\ snapshot["SPY"].high_52w = NoneF
    /\ snapshot["SPY"].sma_200 = NoneF
    /\ snapshot["^TNX"].intraday_change_pct > 0
    /\ triggered = <<>>
    /\ assessment.regime = "NORMAL"

HygOnlyMinusTwo ==
    /\ DOMAIN snapshot = {"HYG"}
    /\ snapshot["HYG"].intraday_change_pct = -20

\* C5 as stated: on the snapshot that holds only HYG with an intraday change
\* of -2.0%, evaluate_rules returns exactly CREDIT_STRESS_INTRADAY and the
\* regime is DEFENSIVE with exactly one trigger, which mentions "Credit stress".
C5_AsStated ==
    (pc = "evaluated" /\ HygOnlyMinusTwo) =>
        /\ TriggeredNames = {"CREDIT_STRESS_INTRADAY"}
        /\ assessment.regime = "DEFENSIVE"
        /\ Len(assessment.triggers) = 1
        /\ assessment.triggers[1][1] = "Credit stress: HYG 5D return "

\* C5 amended: without configuration, on the snapshot that holds only HYG with
\* an intraday change of -2.0%: if HYG's 5-day change is absent or above -3.0%,
\* evaluate_rules returns exactly CREDIT_STRESS_INTRADAY and the regime is
\* NORMAL with no trigger; if it is at or below -3.0%, evaluate_rules returns
\* CREDIT_STRESS_INTRADAY and CREDIT_STRESS_5D and the regime is DEFENSIVE with
\* exactly one trigger, which mentions "Credit stress".
C5_IntradayAloneLeavesRegimeNormal ==
    (pc = "evaluated" /\ HygOnlyMinusTwo /\ configFile = NoConfigFile) =>
        LET c5 == snapshot["HYG"].change_5d_pct
            stressed5d == IF c5 = NoneF THEN FALSE ELSE c5[1] <= -30
        IN  IF stressed5d
            THEN /\ [i \in 1..Len(triggered) |-> triggered[i].rule]
                       = <<"CREDIT_STRESS_INTRADAY", "CREDIT_STRESS_5D">>
                 /\ assessment.regime = "DEFENSIVE"
                 /\ Len(assessment.triggers) = 1
                 /\ assessment.triggers[1][1] = "Credit stress: HYG 5D return "
            ELSE /\ [i \in 1..Len(triggered) |-> triggered[i].rule]
                       = <<"CREDIT_STRESS_INTRADAY">>
                 /\ assessment.regime = "NORMAL"
                 /\ assessment.triggers = <<>>

\* C5 witness: only HYG, -2.0% intraday, no 5-day change: one rule, regime
\* NORMAL.
C5_Witness ==
    /\ pc = "evaluated"
    /\ HygOnlyMinusTwo
    /\ configFile = NoConfigFile
    /\ snapshot["HYG"].change_5d_pct = NoneF
    /\ TriggeredNames = {"CREDIT_STRESS_INTRADAY"}
    /\ assessment.regime = "NORMAL"

\* the drawdown rules and their thresholds in percent
DrawdownBands ==
    {<<-2, "SPY_DRAWDOWN_2PCT">>, <<-4, "SPY_DRAWDOWN_4PCT">>,
     <<-6, "SPY_DRAWDOWN_6PCT">>, <<-10, "SPY_DRAWDOWN_10PCT">>,
     <<-15, "SPY_DRAWDOWN_15PCT">>, <<-20, "SPY_DRAWDOWN_20PCT">>}

SpyHasHigh ==
    /\ "SPY" \in DOMAIN snapshot
    /\ snapshot["SPY"].high_52w # NoneF
    /\ snapshot["SPY"].high_52w[1] > 0

\* (price - high) / high * 100 <= level, for high > 0
DrawdownAtOrBeyond(level) ==
    (snapshot["SPY"].current_price - snapshot["SPY"].high_52w[1]) * 100
        <= level * snapshot["SPY"].high_52w[1]

C7_CreditStressIntraday ==
    pc = "evaluated" =>
        LET threshold == DocumentedThreshold(configFile, "rules",
                                             "credit_stress_intraday", -15)
            entries == {i \in 1..Len(triggered) :
                           triggered[i].rule = "CREDIT_STRESS_INTRADAY"}
        IN  IF "HYG" \in DOMAIN snapshot
            THEN IF snapshot["HYG"].intraday_change_pct <= threshold
                 THEN /\ entries # {}
                      /\ \A i \in entries :
                            triggered[i].value = <<snapshot["HYG"].intraday_change_pct>>
                 ELSE entries = {}
            ELSE TRUE

\* C7 witness: a configured threshold of -2.0, HYG at exactly -2.0%, the rule
\* in the list.
C7_Witness ==
    /\ pc = "evaluated"
    /\ configFile = CustomConfigFile
    /\ "HYG" \in DOMAIN snapshot
    /\ snapshot["HYG"].intraday_change_pct = -20
    /\ "CREDIT_STRESS_INTRADAY" \in TriggeredNames

\* the five regime conditions, as the specification states them
RegimeCondition(k) ==
    LET thr(key, default) == DocumentedThreshold(configFile, "regime", key, default)
        has(sym) == sym \in DOMAIN snapshot
    IN  CASE k = 1 -> /\ has("HYG")
                      /\ snapshot["HYG"].change_5d_pct # NoneF
                      /\ snapshot["HYG"].change_5d_pct[1] <= thr("hyg_5d_threshold", -30)
          [] k = 2 -> /\ has("DX-Y.NYB")
                      /\ snapshot["DX-Y.NYB"].change_5d_pct # NoneF
                      /\ snapshot["DX-Y.NYB"].change_5d_pct[1]
                            >= thr("dxy_5d_threshold", 20)
          [] k = 3 -> /\ has("^VIX")
                      /\ snapshot["^VIX"].current_price >= thr("vix_level_threshold", 300)
                      /\ \/ vix_prev = NoneF
                         \/ snapshot["^VIX"].current_price > vix_prev[1]
          [] k = 4 -> /\ has("SPY") /\ has("TLT")
                      /\ snapshot["SPY"].intraday_change_pct
                            <= thr("spy_tlt_combined_threshold", -25)
                      /\ snapshot["TLT"].intraday_change_pct < 0
          [] k = 5 -> /\ has("SPY") /\ has("^TNX")
                      /\ snapshot["SPY"].sma_200 # NoneF
                      /\ snapshot["SPY"].current_price < snapshot["SPY"].sma_200[1]
                      /\ snapshot["^TNX"].intraday_change_pct > 0

ConditionLabels(k) ==
    CASE k = 1 -> {"Credit stress: HYG 5D return "}
      [] k = 2 -> {"Liquidity tightening: DXY 5D return +"}
      [] k = 3 -> {"Elevated and rising volatility: VIX ", "Elevated volatility: VIX "}
      [] k = 4 -> {"Combined stress: SPY "}
      [] k = 5 -> {"Structural weakness: SPY below 200dma with rates rising"}

ConditionsHolding == {k \in 1..5 : RegimeCondition(k)}

Assessed == pc \in {"assessed", "evaluated"}

\* C8: the regime is DEFENSIVE iff at least one of the five conditions holds
\* and NORMAL iff none does; the triggers list has one explanation for every
\* condition that holds and nothing else (0 to 5 entries); the summary states
\* a count equal to the length of the list (NORMAL: "no ... signals").
C8_RegimeIffAnyCondition ==
    Assessed =>
        /\ assessment.regime = IF ConditionsHolding # {} THEN "DEFENSIVE" ELSE "NORMAL"
        /\ Len(assessment.triggers) = Cardinality(ConditionsHolding)
        /\ \A k \in 1..5 :
              k \in ConditionsHolding <=> TriggerLabels \cap ConditionLabels(k) # {}
        /\ IF assessment.regime = "DEFENSIVE"
           THEN assessment.summary = <<"DEFENSIVE regime - ", Len(assessment.triggers),
                                       " warning signal(s) active">>
           ELSE /\ assessment.triggers = <<>>
                /\ assessment.summary =
                      <<"NORMAL regime - no significant stress signals detected">>

\* C8 witness: all five conditions hold and the list has five explanations.
C8_Witness ==
    /\ Assessed
    /\ ConditionsHolding = 1..5
    /\ Len(assessment.triggers) = 5
    /\ assessment.regime = "DEFENSIVE"

\* C9: the volatility trigger fires exactly when the VIX level is >= the
\* threshold and either the prior close is available and the level is
\* strictly above it, or the prior close is unavailable (with another text);
\* not below the threshold, and not with a prior close >= the level.
C9_VolatilityTrigger ==
    Assessed =>
        LET threshold == DocumentedThreshold(configFile, "regime",
                                             "vix_level_threshold", 300)
            elevated == /\ "^VIX" \in DOMAIN snapshot
                        /\ snapshot["^VIX"].current_price >= threshold
            rising == /\ elevated
                      /\ vix_prev # NoneF
                      /\ snapshot["^VIX"].current_price > vix_prev[1]
            alone == elevated /\ vix_prev = NoneF
        IN  /\ "Elevated and rising volatility: VIX " \in TriggerLabels <=> rising
            /\ "Elevated volatility: VIX " \in TriggerLabels <=> alone

\* C9 witness: the level is at the threshold and equal to the prior close: no
\* volatility trigger.
C9_Witness ==
    /\ Assessed
    /\ configFile = NoConfigFile
    /\ "^VIX" \in DOMAIN snapshot
    /\ snapshot["^VIX"].current_price = 300
    /\ vix_prev = <<300>>
    /\ TriggerLabels \cap ConditionLabels(3) = {}

\* every order in which the five checks can be run
CheckOrders == Permutations(1..5)

\* C10: running the five checks in any order gives the same set of triggers
\* and the same regime as the order of the code.
C10_OrderIndependent ==
    pc = "assessed" =>
        \A order \in CheckOrders :
            LET permuted == assess_regime_in_order(order, snapshot, configFile, vix_prev)
            IN  /\ {permuted.triggers[i] : i \in 1..Len(permuted.triggers)}
                      = {assessment.triggers[i] : i \in 1..Len(assessment.triggers)}
                /\ permuted.regime = assessment.regime

\* C10 witness: an assessment with all five triggers, whose reversed order
\* gives another list.
C10_Witness ==
    /\ pc = "assessed"
    /\ Len(assessment.triggers) = 5
    /\ assess_regime_in_order(<<5, 4, 3, 2, 1>>, snapshot, configFile, vix_prev).triggers
          # assessment.triggers

(***************************************************************************)
(* C11.  The cooldown store fails open: on a state file that is corrupted  *)
(* or unreadable, should_fire returns true for every rule name without     *)
(* raising; on a stored timestamp that is malformed or unparsable,         *)
(* should_fire for that rule returns true without raising.                 *)
(***************************************************************************)
FileDamaged == stateFile.kind \in {"corrupt", "unreadable", "undecodable"}

StampDamaged(rule_name) ==
    /\ stateFile.kind = "json"
    /\ rule_name \in DOMAIN StoredAlerts
    /\ fromisoformat(StoredAlerts[rule_name]).raised # "no"

\* C11 as stated: every should_fire on a damaged file, or for a rule with a
\* damaged timestamp, returned true and raised nothing
C11_FailsOpen ==
    (ret.op = "should_fire" /\ (FileDamaged \/ StampDamaged(ret.name)))
        => (ret.raised = "no" /\ ret.result)

(***************************************************************************)
(* C12.  send_message_safe makes at most two delivery attempts per call: a *)
(* rich-formatted attempt first; a second, plain-text attempt with the     *)
(* formatting markup stripped only if the first failed; it returns true    *)
(* exactly when one of the attempts succeeded; there is never a third.     *)
(***************************************************************************)
Succeeded(call) == call.posted /\ call.answer = "ok"

NotMarkup(piece) == piece \notin MarkupCharacters

C12_AtMostTwoAttempts ==
    \A i \in 1..Len(sends) :
        LET e == sends[i]
        IN  /\ Len(e.calls) \in {1, 2}
            /\ e.calls[1].parse_mode = "Markdown"
            /\ e.calls[1].text = e.text
            /\ Len(e.calls) = 2 =>
                   /\ ~Succeeded(e.calls[1])
                   /\ e.calls[2].parse_mode = ""
                   /\ e.calls[2].text = SelectSeq(e.text, NotMarkup)
            /\ e.result <=> \E k \in 1..Len(e.calls) : Succeeded(e.calls[k])

\* the fallback was needed, lost the markup of the text, and was delivered
C12_Witness ==
    /\ Len(sends) = 1
    /\ Len(sends[1].calls) = 2
    /\ sends[1].calls[2].text # sends[1].text
    /\ sends[1].result

(***************************************************************************)
(* Claims about one run of main_alerts.py (checked under SpecAlerts).      *)
(***************************************************************************)
RegistryIndex(name) == CHOOSE i \in 1..Len(RULES) : RULES[i].name = name

\* critical=0, high=1, medium=2, low=3
DocumentedRank(name) ==
    LET severity == RULES[RegistryIndex(name)].severity
    IN  CASE severity = "critical" -> 0
          [] severity = "high" -> 1
          [] severity = "medium" -> 2
          [] severity = "low" -> 3

RECURSIVE RulesOf(_)
RulesOf(log) ==
    IF log = <<>> THEN <<>> ELSE Head(log).about \o RulesOf(Tail(log))

\* the rules of the messages sent so far, in the order of their delivery
DeliveryOrder == RulesOf(sends)

DeliveryFailed == \E i \in 1..Len(sends) : ~sends[i].result

C14_DeliveredBySeverity ==
    \A i, j \in 1..Len(DeliveryOrder) :
        i < j =>
            \/ DocumentedRank(DeliveryOrder[i]) < DocumentedRank(DeliveryOrder[j])
            \/ /\ DocumentedRank(DeliveryOrder[i]) = DocumentedRank(DeliveryOrder[j])
               /\ RegistryIndex(DeliveryOrder[i]) < RegistryIndex(DeliveryOrder[j])

\* separate messages delivered in an order that is not the registry's
C14_Witness ==
    \E i, j \in 1..Len(sends) :
        /\ i < j
        /\ RegistryIndex(sends[i].about[1]) > RegistryIndex(sends[j].about[1])

(***************************************************************************)
(* C15.  evaluate_rules returns the triggered rules in registry order,     *)
(* each registered rule at most once; the list is a function of the        *)
(* snapshot and the configuration, so that evaluating the same snapshot    *)
(* again yields the same rule names and values; and the evaluation changes *)
(* neither the snapshot nor the cooldown state.                            *)
(***************************************************************************)
InRegistryOrder(trs) ==
    /\ \A i \in 1..Len(trs) : trs[i].rule \in RuleNames
    /\ \A i, j \in 1..Len(trs) :
          i < j => RegistryIndex(trs[i].rule) < RegistryIndex(trs[j].rule)

NamesAndValues(trs) ==
    [i \in 1..Len(trs) |-> <<trs[i].rule, trs[i].value>>]

Evaluation == pc # "evaluated" /\ pc' = "evaluated"

ThresholdKeys ==
    DOMAIN load_config(NoConfigFile).rules
        \cup {"combined_stress", "risk_appetite_positive", "btc_major_move"}

\* the values a key may be overridden with: thresholds beyond every change a
\* snapshot holds, and drawdown lists other than the default one
OverrideValues(key) ==
    IF key = "spy_drawdown_levels"
    THEN {<<>>, <<-1>>, <<-50>>}
    ELSE {-10000, 10000}

\* the configuration cf with rules[key] = value
Overridden(cf, key, value) ==
    LET doc == load_config(cf)
    IN  [exists |-> TRUE,
         doc |-> Put(doc, "rules", Put(Get(doc, "rules", EmptyDict), key, value))]

Triggers(name, cf) ==
    \E i \in 1..Len(evaluate_rules(snapshot, cf, {})) :
        evaluate_rules(snapshot, cf, {})[i].rule = name

Overridable(name) ==
    \E key \in ThresholdKeys : \E value \in OverrideValues(key) :
        Triggers(name, Overridden(configFile, key, value)) # Triggers(name, configFile)

C16_ThresholdsFromConfiguration ==
    pc = "evaluated" => \A name \in RuleNames : Overridable(name)

(***************************************************************************)
(* C17.  The daily report path neither consults nor changes the cooldown   *)
(* state: the report lists every rule the snapshot triggers, whenever the  *)
(* rule last fired, and the persisted last-fire mapping after a daily run  *)
(* is the one before it, whether or not the delivery succeeded.            *)
(***************************************************************************)
\* the signal line of the rule is part of the text
Listed(name, text) ==
    LET line == <<"{emoji}", " ">> \o name_pieces(name)
    IN  \E at \in 0..(Len(text) - Len(line)) :
            \A k \in 1..Len(line) : text[at + k] = line[k]

DailyRunOver == pc = "done" /\ sends # <<>>

C17_DailyIgnoresCooldowns ==
    DailyRunOver =>
        /\ Len(sends) = 1
        /\ \A i \in 1..Len(evaluate_rules(snapshot, configFile, {})) :
              Listed(evaluate_rules(snapshot, configFile, {})[i].rule, sends[1].text)
        /\ stateFile = file_at_start
        /\ records = <<>>
        /\ ret = NoCall

\* a delivered and an undelivered report of a rule that fired a minute before
InCooldown(name, severity) ==
    /\ file_at_start.kind = "json"
    /\ ~should_fire(file_at_start, configFile, clock, name, severity)

C17_Witness ==
    /\ DailyRunOver
    /\ \E i \in 1..Len(triggered) :
          /\ InCooldown(triggered[i].rule, triggered[i].severity)
          /\ Listed(triggered[i].rule, sends[1].text)
    /\ \E i \in 1..Len(triggered) : triggered[i].severity = "low"

(***************************************************************************)
(* C18.  Across successive, non-overlapping runs of the intraday check     *)
(* whose state writes succeed, two successful deliveries of the same rule  *)
(* are at least the cooldown window of the rule's severity apart; a rule   *)
(* that is still triggered when its cooldown is checked within the window  *)
(* after a recorded fire is skipped, and once the check falls at or after  *)
(* the window's end the rule passes the filter and is sent in that run,    *)
(* delivered when the notifier accepts the message.                        *)
(***************************************************************************)
\* the window of a rule in seconds, as documented
WindowOf(name) ==
    60 * DocumentedWindow(configFile, RULES[RegistryIndex(name)].severity)

\* a step in which a rule is delivered again
SeparatedDeliveries ==
    \A n \in RuleNames :
        (last_delivery'[n] # last_delivery[n] /\ last_delivery[n] # -1)
            => last_delivery'[n] - last_delivery[n] >= WindowOf(n)

\* the rule whose cooldown the filter step checks is kept by it
Kept ==
    \E k \in 1..Len(alerts_to_send') : alerts_to_send'[k].rule = triggered[idx].rule

FilterStep == pc = "a_filter" /\ (idx' # idx \/ pc' # pc)

\* the filter decides by the time of the check
FilteredByCheckTime ==
    (FilterStep /\ fired[triggered[idx].rule] # -1) =>
        (Kept <=> clock - fired[triggered[idx].rule] >= WindowOf(triggered[idx].rule))

\* every alert that passed the filter has been sent when the run returns
SentWhenKept ==
    (pc' = "done" /\ pc \in {"a_send", "a_record"}) =>
        \A k \in 1..Len(alerts_to_send') :
            \E i \in 1..Len(sends') :
                /\ \E j \in 1..Len(sends'[i].about) :
                      sends'[i].about[j] = alerts_to_send'[k].rule
                /\ sends'[i].result =>
                      last_delivery'[alerts_to_send'[k].rule] = sends'[i].at

FilteredByRunStart ==
    (FilterStep /\ fired[triggered[idx].rule] # -1) =>
        (Kept <=> run_start - fired[triggered[idx].rule]
                        >= WindowOf(triggered[idx].rule))

Entry(f, name) ==
    IF /\ f.kind = "json"
       /\ "last_alerts" \in DOMAIN f.data
       /\ name \in DOMAIN f.data["last_alerts"]
    THEN <<f.data["last_alerts"][name]>>
    ELSE <<>>

DeliveredOk(name) ==
    \E i \in 1..Len(sends) :
        /\ sends[i].result
        /\ \E k \in 1..Len(sends[i].about) : sends[i].about[k] = name

C19_RecordOnlyAfterDelivery ==
    /\ \A k \in 1..Len(records) : DeliveredOk(records[k].name)
    /\ \A name \in RuleNames :
           ~DeliveredOk(name) => Entry(stateFile, name) = Entry(file_at_start, name)

(***************************************************************************)
(* C20.  With n alerts passing the cooldown filter: when n > 3 exactly one *)
(* combined message is sent, and record_fire is called for all n rules if  *)
(* it succeeds and for none if it fails; when 1 <= n <= 3 one message per  *)
(* alert is sent, and a failed delivery does not keep the remaining alerts *)
(* from being sent and recorded; when n = 0 nothing is sent or recorded.   *)
(***************************************************************************)
RecordedNames == [k \in 1..Len(records) |-> records[k].name]

DeliveredOnly(log) == SelectSeq(log, LAMBDA e : e.result)

ReturnedNormally == pc = "done" /\ exit_status = 0

C20_CombinedAboveThree ==
    ReturnedNormally =>
        LET n == Len(alerts_to_send)
        IN  /\ n = 0 => sends = <<>> /\ records = <<>>
            /\ n \in 1..3 =>
                   /\ Len(sends) = n
                   /\ \A i \in 1..n : sends[i].about = <<alerts_to_send[i].rule>>
                   /\ RecordedNames = RulesOf(DeliveredOnly(sends))
            /\ n > 3 =>
                   /\ Len(sends) = 1
                   /\ sends[1].about = rule_names(alerts_to_send)
                   /\ sends[1].result => RecordedNames = rule_names(alerts_to_send)
                   /\ ~sends[1].result => records = <<>>

\* three alerts: the first delivery failed, the other two were made and
\* recorded
C20_Witness ==
    /\ ReturnedNormally
    /\ Len(alerts_to_send) = 3
    /\ Len(sends) = 3
    /\ ~sends[1].result /\ sends[2].result /\ sends[3].result
    /\ Len(records) = 2

(***************************************************************************)
(* C21.  When the state write inside record_fire fails, no error           *)
(* propagates, and the persisted state is left as it was before the call:  *)
(* every later should_fire answers as it would have answered had           *)
(* record_fire not been called.  The persisted state is the last-fire      *)
(* mapping load_state reads from the file.                                 *)
(***************************************************************************)
\* a step made by a record_fire whose write failed
FailedWrite ==
    /\ ret'.op = "record_fire"
    /\ ret'.raised = "no"
    /\ ~ret'.result
    /\ ret'.at = clock

SameAnswers(f, g) ==
    \A n \in DOMAIN fired : \A sev \in Severity :
        /\ should_fire_raised(f, n) = should_fire_raised(g, n)
        /\ should_fire(f, configFile, clock, n, sev)
             = should_fire(g, configFile, clock, n, sev)

C21_FailedWriteLeavesState ==
    [][FailedWrite =>
         /\ Get(load_state(stateFile'), "last_alerts", EmptyDict)
              = Get(load_state(stateFile), "last_alerts", EmptyDict)
         /\ SameAnswers(stateFile', stateFile)]_vars

(***************************************************************************)
(* C22.  With the default configuration the regime classifier agrees with  *)
(* the rules it shares conditions with: the credit-stress,                 *)
(* liquidity-tightening and combined-stress triggers of assess_regime are  *)
(* present exactly when evaluate_rules triggers CREDIT_STRESS_5D,          *)
(* LIQUIDITY_STRESS_5D and COMBINED_STRESS on the same snapshot, and the   *)
(* regime is DEFENSIVE whenever one of these rules is triggered.           *)
(***************************************************************************)
SharedConditions ==
    { <<"CREDIT_STRESS_5D", 1>>, <<"LIQUIDITY_STRESS_5D", 2>>,
      <<"COMBINED_STRESS", 4>> }

BothEvaluated == pc = "evaluated" /\ assessment # NoAssessment

C22_RegimeAgreesWithRules ==
    (BothEvaluated /\ configFile = NoConfigFile) =>
        /\ \A shared \in SharedConditions :
              shared[1] \in TriggeredNames
                  <=> TriggerLabels \cap ConditionLabels(shared[2]) # {}
        /\ (\E shared \in SharedConditions : shared[1] \in TriggeredNames)
              => assessment.regime = "DEFENSIVE"

\* the 5-day change of the dollar index exactly at its threshold, with the
\* credit and combined conditions holding too
C22_Witness ==
    /\ BothEvaluated
    /\ configFile = NoConfigFile
    /\ {"CREDIT_STRESS_5D", "LIQUIDITY_STRESS_5D", "COMBINED_STRESS"}
          \subseteq TriggeredNames
    /\ snapshot["DX-Y.NYB"].change_5d_pct = <<20>>
    /\ Len(assessment.triggers) >= 3

(***************************************************************************)
(* C23.  On a store that loads, record_fire(name) changes only the         *)
(* last-fire entry of name: the entries of every other rule name and the   *)
(* schema version tag are after the call what they were before it; and     *)
(* should_fire and get_last_fire_time never change the persisted state.    *)
(***************************************************************************)
Loads(f) == f.kind \in {"absent", "json"}

\* the version tag of a state file: <<>> if it has none
VersionTag(f) ==
    IF f.kind = "json" /\ "version" \in DOMAIN f.data
    THEN <<f.data["version"]>>
    ELSE <<>>

RecordStep == ret'.op = "record_fire" /\ ret'.at = clock /\ stateFile' # stateFile

ReadStep == ret'.op \in {"should_fire", "get_last_fire_time"} /\ ret' # ret

C23_OnlyOwnEntryChanges ==
    [][Loads(stateFile) =>
         /\ RecordStep =>
               /\ \A n \in StoreNames \ {ret'.name} :
                     Entry(stateFile', n) = Entry(stateFile, n)
               /\ stateFile.kind = "json" => VersionTag(stateFile') = VersionTag(stateFile)
         /\ ReadStep => stateFile' = stateFile]_vars

====
